---------------------------- MODULE Spec2Model ----------------------------
(***************************************************************************)
(* MeetingSense AI: the server-side analysis orchestration engine.         *)
(*                                                                         *)
(*   server/services/geminiAnalyzer.js   classifyGeminiError,              *)
(*                                       withSmartRetry, runAnalysis,      *)
(*                                       analyzeRecording                  *)
(*   server/routes/meetings.js           POST /:id/analyze (SSE handler)   *)
(*                                                                         *)
(* Text is modelled as a sequence of one-character strings, so that        *)
(* String.includes, toLowerCase, slice and the bracketed-status regular    *)
(* expression are computed as the code computes them.  Characters outside  *)
(* ASCII (the emoji and arrows of the user messages) are written "?"; no   *)
(* keyword the code searches for contains one.                             *)
(***************************************************************************)
EXTENDS Integers, Sequences, FiniteSets, TLC

(***************************************************************************)
(* Bounds of the model.                                                    *)
(***************************************************************************)
\* words per generated raw error message (classifier inputs)
MaxWords == 2
\* channel operations called in one run of the channel harness
MaxChannelCalls == 5
\* largest maxAttempts argument given to withSmartRetry on its own
MaxAttemptsArg == 3

\* the response stream carries at most MaxEvents events
MaxEvents == 3

\* a chunk of the response may end after ChunkSplit characters
ChunkSplit == 9

\* the clock advances TickMinutes at a time, up to MaxMinutes
TickMinutes == 5

MaxMinutes == 30

\* the stored image list holds at most MaxStoredImages images
MaxStoredImages == 100

\* the File API answers ACTIVE or FAILED within MaxAnswerPolls polls, or not
\* before the last poll
MaxAnswerPolls == 2

\* sampleEvenly is applied to lists of at most MaxSampleLen elements
MaxSampleLen == 32

\* the numbers of timeline entries of the small metadata texts
EntryCounts == {0, 150, 201, 230}

\* the limits the small metadata texts are trimmed to
SmallLimits == {1000, 3500}

\* the entries of the long timeline, and the padding of each
LongTimeline == 300

LongPad == 400

(***************************************************************************)
(* Program constants.                                                      *)
(***************************************************************************)
MAX_RETRIES == 3
RETRY_BASE_MS == 3000
RATE_LIMIT_WAIT_MS == 65000
SERVICE_UNAVAILABLE_WAIT_MS == 10000
INVALID_DETAIL_CHARS == 200
\* JavaScript null / undefined where a number is expected
Null == -1

(***************************************************************************)
(* Text helpers.                                                           *)
(***************************************************************************)
UpperChars ==
    <<"A", "B", "C", "D", "E", "F", "G", "H", "I", "J", "K", "L", "M",
      "N", "O", "P", "Q", "R", "S", "T", "U", "V", "W", "X", "Y", "Z">>

LowerChars ==
    <<"a", "b", "c", "d", "e", "f", "g", "h", "i", "j", "k", "l", "m",
      "n", "o", "p", "q", "r", "s", "t", "u", "v", "w", "x", "y", "z">>

Digits == <<"0", "1", "2", "3", "4", "5", "6", "7", "8", "9">>

\* the characters the regular expression class \s matches, of those used here
Whitespace == {" ", "\n", "\t"}

LowerChar(c) ==
    IF \E i \in 1..26 : UpperChars[i] = c
    THEN LowerChars[CHOOSE i \in 1..26 : UpperChars[i] = c]
    ELSE c

\* String.prototype.toLowerCase
ToLower(t) == [i \in 1..Len(t) |-> LowerChar(t[i])]

\* String.prototype.includes
Includes(hay, needle) ==
    \E i \in 1..(Len(hay) - Len(needle) + 1) :
        \A j \in 1..Len(needle) : hay[i + j - 1] = needle[j]

\* String.prototype.slice(0, n)
SliceTo(t, n) == IF Len(t) <= n THEN t ELSE SubSeq(t, 1, n)

IsDigit(c) == \E d \in 1..10 : Digits[d] = c

DigitVal(c) == (CHOOSE d \in 1..10 : Digits[d] = c) - 1

\* message.match(/\[(\d{3})\s/): the positions of "[" where the pattern matches
BracketMatches(message) ==
    { i \in 1..(Len(message) - 4) :
        /\ message[i] = "["
        /\ IsDigit(message[i + 1])
        /\ IsDigit(message[i + 2])
        /\ IsDigit(message[i + 3])
        /\ message[i + 4] \in Whitespace }

Min(S) == CHOOSE x \in S : \A y \in S : x <= y

\* extractHttpStatus: the code of the first bracketed token, else null
extractHttpStatus(message) ==
    IF BracketMatches(message) = {}
    THEN Null
    ELSE LET i == Min(BracketMatches(message))
         IN  100 * DigitVal(message[i + 1]) + 10 * DigitVal(message[i + 2])
               + DigitVal(message[i + 3])

(***************************************************************************)
(* The texts of the program.                                               *)
(***************************************************************************)
Keyword ==
    [ resource_exhausted |->
       <<"r", "e", "s", "o", "u", "r", "c", "e", "_", "e", "x", "h", "a", "u", "s", "t", "e", "d">>,
      rate_limit |->
       <<"r", "a", "t", "e", " ", "l", "i", "m", "i", "t">>,
      n429 |->
       <<"4", "2", "9">>,
      quota |->
       <<"q", "u", "o", "t", "a">>,
      daily |->
       <<"d", "a", "i", "l", "y">>,
      per_day |->
       <<"p", "e", "r", " ", "d", "a", "y">>,
      exhausted |->
       <<"e", "x", "h", "a", "u", "s", "t", "e", "d">>,
      permission_denied |->
       <<"p", "e", "r", "m", "i", "s", "s", "i", "o", "n", "_", "d", "e", "n", "i", "e", "d">>,
      permission_denied_space |->
       <<"p", "e", "r", "m", "i", "s", "s", "i", "o", "n", " ", "d", "e", "n", "i", "e", "d">>,
      n403 |->
       <<"4", "0", "3">>,
      leaked |->
       <<"l", "e", "a", "k", "e", "d">>,
      reported |->
       <<"r", "e", "p", "o", "r", "t", "e", "d">>,
      n400 |->
       <<"4", "0", "0">>,
      failed_precondition |->
       <<"f", "a", "i", "l", "e", "d", "_", "p", "r", "e", "c", "o", "n", "d", "i", "t", "i",
       "o", "n">>,
      billing |->
       <<"b", "i", "l", "l", "i", "n", "g">>,
      region |->
       <<"r", "e", "g", "i", "o", "n">>,
      precondition |->
       <<"p", "r", "e", "c", "o", "n", "d", "i", "t", "i", "o", "n">>,
      invalid_argument |->
       <<"i", "n", "v", "a", "l", "i", "d", "_", "a", "r", "g", "u", "m", "e", "n", "t">>,
      not_found |->
       <<"n", "o", "t", "_", "f", "o", "u", "n", "d">>,
      n404 |->
       <<"4", "0", "4">>,
      internal |->
       <<"i", "n", "t", "e", "r", "n", "a", "l">>,
      unavailable |->
       <<"u", "n", "a", "v", "a", "i", "l", "a", "b", "l", "e">>,
      deadline_exceeded |->
       <<"d", "e", "a", "d", "l", "i", "n", "e", "_", "e", "x", "c", "e", "e", "d", "e", "d">>,
      token |->
       <<"t", "o", "k", "e", "n">>,
      context_length |->
       <<"c", "o", "n", "t", "e", "x", "t", " ", "l", "e", "n", "g", "t", "h">>,
      exceeds |->
       <<"e", "x", "c", "e", "e", "d", "s">>,
      too_large |->
       <<"t", "o", "o", " ", "l", "a", "r", "g", "e">>,
      RESOURCE_EXHAUSTED |->
       <<"R", "E", "S", "O", "U", "R", "C", "E", "_", "E", "X", "H", "A", "U", "S", "T", "E", "D">> ]

UserMessage ==
    [ QUOTA_EXHAUSTED |->
       <<"?", " ", "D", "a", "i", "l", "y", " ", "A", "P", "I", " ", "q", "u", "o", "t", "a",
       " ", "e", "x", "h", "a", "u", "s", "t", "e", "d", ".", "\n", "\n", "Y", "o", "u", "r",
       " ", "f", "r", "e", "e", "-", "t", "i", "e", "r", " ", "d", "a", "i", "l", "y", " ", "r",
       "e", "q", "u", "e", "s", "t", " ", "l", "i", "m", "i", "t", " ", "h", "a", "s", " ", "b",
       "e", "e", "n", " ", "r", "e", "a", "c", "h", "e", "d", ".", " ", "I", "t", " ", "r", "e",
       "s", "e", "t", "s", " ", "a", "t", " ", "m", "i", "d", "n", "i", "g", "h", "t", " ", "P",
       "a", "c", "i", "f", "i", "c", " ", "T", "i", "m", "e", " ", "(", "P", "T", ")", ".", "\n",
       "\n", "O", "p", "t", "i", "o", "n", "s", ":", "\n", "?", " ", "W", "a", "i", "t", " ",
       "u", "n", "t", "i", "l", " ", "m", "i", "d", "n", "i", "g", "h", "t", " ", "P", "T", " ",
       "a", "n", "d", " ", "t", "r", "y", " ", "a", "g", "a", "i", "n", "\n", "?", " ", "U", "p",
       "g", "r", "a", "d", "e", " ", "t", "o", " ", "a", " ", "p", "a", "i", "d", " ", "p", "l",
       "a", "n", " ", "a", "t", " ", "a", "i", "s", "t", "u", "d", "i", "o", ".", "g", "o", "o",
       "g", "l", "e", ".", "c", "o", "m", " ", "f", "o", "r", " ", "h", "i", "g", "h", "e", "r",
       " ", "q", "u", "o", "t", "a", "s", "\n", "?", " ", "U", "s", "e", " ", "a", " ", "d", "i",
       "f", "f", "e", "r", "e", "n", "t", " ", "G", "e", "m", "i", "n", "i", " ", "A", "P", "I",
       " ", "k", "e", "y", " ", "i", "n", " ", "S", "e", "t", "t", "i", "n", "g", "s">>,
      RATE_LIMITED |->
       <<"?", "?", " ", "R", "a", "t", "e", " ", "l", "i", "m", "i", "t", " ", "h", "i", "t",
       " ", "(", "t", "o", "o", " ", "m", "a", "n", "y", " ", "r", "e", "q", "u", "e", "s", "t",
       "s", " ", "p", "e", "r", " ", "m", "i", "n", "u", "t", "e", ")", ".", "\n", "\n", "W",
       "a", "i", "t", "i", "n", "g", " ", "6", "5", " ", "s", "e", "c", "o", "n", "d", "s", " ",
       "b", "e", "f", "o", "r", "e", " ", "r", "e", "t", "r", "y", "i", "n", "g", " ", "a", "u",
       "t", "o", "m", "a", "t", "i", "c", "a", "l", "l", "y", ".", ".", ".", "\n", "Y", "o", "u",
       " ", "c", "a", "n", " ", "v", "i", "e", "w", " ", "y", "o", "u", "r", " ", "c", "u", "r",
       "r", "e", "n", "t", " ", "l", "i", "m", "i", "t", "s", " ", "a", "t", ":", " ", "a", "i",
       "s", "t", "u", "d", "i", "o", ".", "g", "o", "o", "g", "l", "e", ".", "c", "o", "m", "/",
       "r", "a", "t", "e", "-", "l", "i", "m", "i", "t">>,
      KEY_LEAKED |->
       <<"?", " ", "Y", "o", "u", "r", " ", "A", "P", "I", " ", "k", "e", "y", " ", "h", "a",
       "s", " ", "b", "e", "e", "n", " ", "f", "l", "a", "g", "g", "e", "d", " ", "a", "s", " ",
       "l", "e", "a", "k", "e", "d", " ", "b", "y", " ", "G", "o", "o", "g", "l", "e", ".", "\n",
       "\n", "C", "r", "e", "a", "t", "e", " ", "a", " ", "n", "e", "w", " ", "A", "P", "I", " ",
       "k", "e", "y", " ", "a", "t", " ", "a", "i", "s", "t", "u", "d", "i", "o", ".", "g", "o",
       "o", "g", "l", "e", ".", "c", "o", "m", "/", "a", "p", "i", "k", "e", "y", " ", "a", "n",
       "d", " ", "u", "p", "d", "a", "t", "e", " ", "i", "t", " ", "i", "n", " ", "S", "e", "t",
       "t", "i", "n", "g", "s", ".">>,
      AUTH_ERROR |->
       <<"?", " ", "A", "P", "I", " ", "k", "e", "y", " ", "p", "e", "r", "m", "i", "s", "s",
       "i", "o", "n", " ", "d", "e", "n", "i", "e", "d", ".", "\n", "\n", "Y", "o", "u", "r",
       " ", "k", "e", "y", " ", "m", "a", "y", " ", "b", "e", " ", "i", "n", "v", "a", "l", "i",
       "d", ",", " ", "e", "x", "p", "i", "r", "e", "d", ",", " ", "o", "r", " ", "r", "e", "s",
       "t", "r", "i", "c", "t", "e", "d", ".", "\n", "P", "l", "e", "a", "s", "e", " ", "c", "h",
       "e", "c", "k", " ", "y", "o", "u", "r", " ", "A", "P", "I", " ", "k", "e", "y", " ", "i",
       "n", " ", "S", "e", "t", "t", "i", "n", "g", "s", " ", "?", " ", "i", "t", " ", "s", "h",
       "o", "u", "l", "d", " ", "s", "t", "a", "r", "t", " ", "w", "i", "t", "h", " ", "\"", "A",
       "I", ".", ".", ".", "\"", ".", "\n", "G", "e", "n", "e", "r", "a", "t", "e", " ", "a",
       " ", "n", "e", "w", " ", "o", "n", "e", " ", "a", "t", " ", "a", "i", "s", "t", "u", "d",
       "i", "o", ".", "g", "o", "o", "g", "l", "e", ".", "c", "o", "m", "/", "a", "p", "i", "k",
       "e", "y", " ", "i", "f", " ", "n", "e", "e", "d", "e", "d", ".">>,
      BILLING_REQUIRED |->
       <<"?", " ", "G", "e", "m", "i", "n", "i", " ", "A", "P", "I", " ", "r", "e", "q", "u",
       "i", "r", "e", "s", " ", "b", "i", "l", "l", "i", "n", "g", " ", "t", "o", " ", "b", "e",
       " ", "e", "n", "a", "b", "l", "e", "d", " ", "f", "o", "r", " ", "y", "o", "u", "r", " ",
       "a", "c", "c", "o", "u", "n", "t", " ", "o", "r", " ", "r", "e", "g", "i", "o", "n", ".",
       "\n", "\n", "E", "n", "a", "b", "l", "e", " ", "b", "i", "l", "l", "i", "n", "g", " ",
       "a", "t", ":", " ", "a", "i", "s", "t", "u", "d", "i", "o", ".", "g", "o", "o", "g", "l",
       "e", ".", "c", "o", "m", " ", "?", " ", "S", "e", "t", "t", "i", "n", "g", "s", " ", "?",
       " ", "B", "i", "l", "l", "i", "n", "g", ".", "\n", "T", "h", "e", " ", "f", "r", "e", "e",
       " ", "t", "i", "e", "r", " ", "i", "s", " ", "a", "v", "a", "i", "l", "a", "b", "l", "e",
       " ", "i", "n", " ", "m", "o", "s", "t", " ", "r", "e", "g", "i", "o", "n", "s", " ", "?",
       " ", "e", "n", "s", "u", "r", "e", " ", "y", "o", "u", "r", " ", "a", "c", "c", "o", "u",
       "n", "t", " ", "i", "s", " ", "v", "e", "r", "i", "f", "i", "e", "d", ".">>,
      INVALID_REQUEST_PREFIX |->
       <<"?", " ", "T", "h", "e", " ", "r", "e", "q", "u", "e", "s", "t", " ", "w", "a", "s",
       " ", "r", "e", "j", "e", "c", "t", "e", "d", " ", "a", "s", " ", "i", "n", "v", "a", "l",
       "i", "d", ".", "\n", "\n", "T", "h", "i", "s", " ", "u", "s", "u", "a", "l", "l", "y",
       " ", "m", "e", "a", "n", "s", " ", "t", "h", "e", " ", "a", "u", "d", "i", "o", " ", "f",
       "o", "r", "m", "a", "t", " ", "i", "s", " ", "u", "n", "s", "u", "p", "p", "o", "r", "t",
       "e", "d", ",", " ", "o", "r", " ", "a", " ", "r", "e", "q", "u", "i", "r", "e", "d", " ",
       "f", "i", "e", "l", "d", " ", "i", "s", " ", "m", "i", "s", "s", "i", "n", "g", ".", "\n",
       "D", "e", "t", "a", "i", "l", ":", " ">>,
      FILE_EXPIRED |->
       <<"?", " ", "T", "h", "e", " ", "u", "p", "l", "o", "a", "d", "e", "d", " ", "a", "u",
       "d", "i", "o", " ", "f", "i", "l", "e", " ", "r", "e", "f", "e", "r", "e", "n", "c", "e",
       " ", "h", "a", "s", " ", "e", "x", "p", "i", "r", "e", "d", " ", "o", "n", " ", "G", "e",
       "m", "i", "n", "i", "'", "s", " ", "s", "e", "r", "v", "e", "r", "s", ".", "\n", "\n",
       "G", "e", "m", "i", "n", "i", " ", "F", "i", "l", "e", " ", "A", "P", "I", " ", "f", "i",
       "l", "e", "s", " ", "e", "x", "p", "i", "r", "e", " ", "a", "f", "t", "e", "r", " ", "4",
       "8", " ", "h", "o", "u", "r", "s", ".", " ", "P", "l", "e", "a", "s", "e", " ", "r", "e",
       "-", "s", "u", "b", "m", "i", "t", " ", "t", "h", "e", " ", "r", "e", "c", "o", "r", "d",
       "i", "n", "g", " ", "f", "o", "r", " ", "a", "n", "a", "l", "y", "s", "i", "s", ".">>,
      SERVER_ERROR |->
       <<"?", "?", " ", "G", "e", "m", "i", "n", "i", " ", "e", "n", "c", "o", "u", "n", "t",
       "e", "r", "e", "d", " ", "a", "n", " ", "i", "n", "t", "e", "r", "n", "a", "l", " ", "s",
       "e", "r", "v", "e", "r", " ", "e", "r", "r", "o", "r", ".", "\n", "\n", "T", "h", "i",
       "s", " ", "s", "o", "m", "e", "t", "i", "m", "e", "s", " ", "h", "a", "p", "p", "e", "n",
       "s", " ", "w", "i", "t", "h", " ", "v", "e", "r", "y", " ", "l", "a", "r", "g", "e", " ",
       "i", "n", "p", "u", "t", "s", ".", " ", "R", "e", "t", "r", "y", "i", "n", "g", " ", "w",
       "i", "t", "h", " ", "a", " ", "s", "m", "a", "l", "l", "e", "r", " ", "p", "a", "y", "l",
       "o", "a", "d", ".", ".", ".">>,
      SERVICE_UNAVAILABLE |->
       <<"?", " ", "G", "e", "m", "i", "n", "i", " ", "i", "s", " ", "t", "e", "m", "p", "o",
       "r", "a", "r", "i", "l", "y", " ", "o", "v", "e", "r", "l", "o", "a", "d", "e", "d", ".",
       "\n", "\n", "R", "e", "t", "r", "y", "i", "n", "g", " ", "i", "n", " ", "a", " ", "m",
       "o", "m", "e", "n", "t", ".", ".", ".">>,
      DEADLINE_EXCEEDED |->
       <<"?", " ", "G", "e", "m", "i", "n", "i", " ", "c", "o", "u", "l", "d", " ", "n", "o",
       "t", " ", "f", "i", "n", "i", "s", "h", " ", "p", "r", "o", "c", "e", "s", "s", "i", "n",
       "g", " ", "w", "i", "t", "h", "i", "n", " ", "i", "t", "s", " ", "t", "i", "m", "e", " ",
       "l", "i", "m", "i", "t", ".", "\n", "\n", "T", "h", "i", "s", " ", "c", "a", "n", " ",
       "h", "a", "p", "p", "e", "n", " ", "w", "i", "t", "h", " ", "v", "e", "r", "y", " ", "l",
       "o", "n", "g", " ", "r", "e", "c", "o", "r", "d", "i", "n", "g", "s", " ", "o", "n", " ",
       "s", "m", "a", "l", "l", "e", "r", " ", "m", "o", "d", "e", "l", "s", ".", "\n", "T", "r",
       "y", " ", "s", "w", "i", "t", "c", "h", "i", "n", "g", " ", "t", "o", " ", "a", " ", "m",
       "o", "r", "e", " ", "p", "o", "w", "e", "r", "f", "u", "l", " ", "m", "o", "d", "e", "l",
       " ", "(", "e", ".", "g", ".", " ", "g", "e", "m", "i", "n", "i", "-", "2", ".", "5", "-",
       "p", "r", "o", ")", " ", "i", "n", " ", "S", "e", "t", "t", "i", "n", "g", "s", ".">>,
      CONTEXT_OVERFLOW |->
       <<"?", " ", "T", "h", "e", " ", "r", "e", "c", "o", "r", "d", "i", "n", "g", " ", "i",
       "s", " ", "t", "o", "o", " ", "l", "a", "r", "g", "e", " ", "f", "o", "r", " ", "t", "h",
       "e", " ", "m", "o", "d", "e", "l", "'", "s", " ", "c", "o", "n", "t", "e", "x", "t", " ",
       "w", "i", "n", "d", "o", "w", ".", "\n", "\n", "R", "e", "d", "u", "c", "i", "n", "g",
       " ", "p", "a", "y", "l", "o", "a", "d", " ", "a", "n", "d", " ", "r", "e", "t", "r", "y",
       "i", "n", "g", ".", ".", ".">>,
      UNKNOWN_DEFAULT |->
       <<"A", "n", " ", "u", "n", "e", "x", "p", "e", "c", "t", "e", "d", " ", "e", "r", "r",
       "o", "r", " ", "o", "c", "c", "u", "r", "r", "e", "d", ".", " ", "P", "l", "e", "a", "s",
       "e", " ", "t", "r", "y", " ", "a", "g", "a", "i", "n", ".">> ]

ErrorText ==
    [ Error |->
       <<"E", "r", "r", "o", "r">>,
      WriteFailed |->
       <<"w", "r", "i", "t", "e", " ", "E", "C", "O", "N", "N", "R", "E", "S", "E", "T">>,
      DbFailed |->
       <<"d", "a", "t", "a", "b", "a", "s", "e", " ", "c", "l", "o", "s", "e", "d">>,
      GeminiUserError |->
       <<"G", "e", "m", "i", "n", "i", "U", "s", "e", "r", "E", "r", "r", "o", "r">>,
      EmptyResponse |->
       <<"G", "e", "m", "i", "n", "i", " ", "r", "e", "t", "u", "r", "n", "e", "d", " ", "a",
       "n", " ", "e", "m", "p", "t", "y", " ", "r", "e", "s", "p", "o", "n", "s", "e", ".", " ",
       "P", "l", "e", "a", "s", "e", " ", "t", "r", "y", " ", "a", "g", "a", "i", "n", ".">> ]

Vocab ==
    << <<"4", "2", "9">>,
       <<"[", "4", "2", "9", " ", "R", "E", "S", "O", "U", "R", "C", "E", "_", "E", "X", "H",
         "A", "U", "S", "T", "E", "D", "]">>,
       <<"q", "u", "o", "t", "a">>,
       <<"Q", "u", "o", "t", "a">>,
       <<"d", "a", "i", "l", "y">>,
       <<"r", "a", "t", "e", " ", "l", "i", "m", "i", "t">>,
       <<"[", "4", "0", "3", " ", "P", "E", "R", "M", "I", "S", "S", "I", "O", "N", "_", "D",
         "E", "N", "I", "E", "D", "]">>,
       <<"l", "e", "a", "k", "e", "d">>,
       <<"[", "4", "0", "0", " ", "I", "N", "V", "A", "L", "I", "D", "_", "A", "R", "G", "U",
         "M", "E", "N", "T", "]">>,
       <<"b", "i", "l", "l", "i", "n", "g">>,
       <<"[", "4", "0", "4", " ", "N", "O", "T", "_", "F", "O", "U", "N", "D", "]">>,
       <<"[", "5", "0", "0", " ", "I", "N", "T", "E", "R", "N", "A", "L", "]">>,
       <<"[", "5", "0", "3", " ", "U", "N", "A", "V", "A", "I", "L", "A", "B", "L", "E", "]">>,
       <<"[", "5", "0", "4", " ", "D", "E", "A", "D", "L", "I", "N", "E", "_", "E", "X", "C",
         "E", "E", "D", "E", "D", "]">>,
       <<"t", "o", "k", "e", "n">>,
       <<"E", "x", "c", "e", "e", "d", "s">>,
       <<"t", "o", "o", " ", "l", "a", "r", "g", "e">>,
       <<"f", "e", "t", "c", "h", " ", "f", "a", "i", "l", "e", "d">>,
       <<"p", "e", "r", " ", "d", "a", "y">> >>

(***************************************************************************)
(* Errors.  An error object is a record: cls is its class, status and      *)
(* statusCode its numeric fields (Null when absent), message its message,  *)
(* type the GeminiUserError type ("none" on any other error).              *)
(***************************************************************************)
RawError(status, statusCode, message) ==
    [cls |-> "Error", status |-> status, statusCode |-> statusCode,
     message |-> message, type |-> "none"]

\* new GeminiUserError(userMessage, type)
GeminiUserError(userMessage, type) ==
    [cls |-> "GeminiUserError", status |-> Null, statusCode |-> Null,
     message |-> userMessage, type |-> type]

\* Error.prototype.toString: the name, then ": " and the message if any
ErrToString(err) ==
    LET name == IF err.cls = "GeminiUserError" THEN ErrorText.GeminiUserError
                ELSE ErrorText.Error
    IN  IF err.message = <<>> THEN name ELSE name \o <<":", " ">> \o err.message

\* String(err?.message || err?.toString() || '')
\* (of undefined, the error the loop never assigned: the empty string)
RawText(err) ==
    IF err.message # <<>> THEN err.message
    ELSE IF err.cls = "none" THEN <<>>
    ELSE ErrToString(err)

\* err?.status ?? err?.statusCode ?? extractHttpStatus(raw)
StatusOf(err) ==
    IF err.status # Null THEN err.status
    ELSE IF err.statusCode # Null THEN err.statusCode
    ELSE extractHttpStatus(RawText(err))

Classification(type, retryable, waitMs, userMessage) ==
    [type |-> type, retryable |-> retryable, waitMs |-> waitMs,
     userMessage |-> userMessage]

\* no classification yet
NoClassification == Classification("none", FALSE, Null, <<>>)

\* no error
NoError ==
    [cls |-> "none", status |-> Null, statusCode |-> Null, message |-> <<>>,
     type |-> "none"]

(***************************************************************************)
(* classifyGeminiError: the decision table, first match wins.  Each row's  *)
(* condition is a definition of its own, with the code's operands: raw is  *)
(* the message text, lower its lower-case form, status the status code.    *)
(***************************************************************************)
\* Row429 with the status field alone deciding the row
Row429_StatusOnly(raw, lower, status) == status = 429

Row429(raw, lower, status) ==
    \/ status = 429
    \/ Includes(lower, Keyword.resource_exhausted)
    \/ Includes(lower, Keyword.rate_limit)
    \/ Includes(raw, Keyword.n429)

\* the quota wording found in every message
QuotaWording_Always(lower) == lower = lower

QuotaWording(lower) ==
    \/ Includes(lower, Keyword.quota)
    \/ Includes(lower, Keyword.daily)
    \/ Includes(lower, Keyword.per_day)
    \/ Includes(lower, Keyword.exhausted)

Row403(raw, lower, status) ==
    \/ status = 403
    \/ Includes(lower, Keyword.permission_denied)
    \/ Includes(lower, Keyword.permission_denied_space)
    \/ Includes(raw, Keyword.n403)

\* the 403 row never seeing the leak wording
LeakWording_Never(lower) == FALSE

LeakWording(lower) ==
    Includes(lower, Keyword.leaked) \/ Includes(lower, Keyword.reported)

RowBilling(raw, lower, status) ==
    /\ (status = 400 \/ Includes(raw, Keyword.n400))
    /\ \/ Includes(lower, Keyword.failed_precondition)
       \/ Includes(lower, Keyword.billing)
       \/ Includes(lower, Keyword.region)
       \/ Includes(lower, Keyword.precondition)

Row400(raw, lower, status) ==
    status = 400 \/ Includes(lower, Keyword.invalid_argument)

Row404(raw, lower, status) ==
    status = 404 \/ Includes(lower, Keyword.not_found) \/ Includes(raw, Keyword.n404)

Row500(raw, lower, status) ==
    status = 500 \/ Includes(lower, Keyword.internal)

Row503(raw, lower, status) ==
    status = 503 \/ Includes(lower, Keyword.unavailable)

Row504(raw, lower, status) ==
    status = 504 \/ Includes(lower, Keyword.deadline_exceeded)

RowContext(raw, lower, status) ==
    \/ Includes(lower, Keyword.token)
    \/ Includes(lower, Keyword.context_length)
    \/ Includes(lower, Keyword.exceeds)
    \/ Includes(lower, Keyword.too_large)

classifyGeminiError(err) ==
    LET raw    == RawText(err)
        lower  == ToLower(raw)
        status == StatusOf(err)
    IN
    IF Row429(raw, lower, status)
    THEN IF QuotaWording(lower)
         THEN Classification("QUOTA_EXHAUSTED", FALSE, Null, UserMessage.QUOTA_EXHAUSTED)
         ELSE Classification("RATE_LIMITED", TRUE, RATE_LIMIT_WAIT_MS,
                             UserMessage.RATE_LIMITED)
    ELSE IF Row403(raw, lower, status)
    THEN IF LeakWording(lower)
         THEN Classification("KEY_LEAKED", FALSE, Null, UserMessage.KEY_LEAKED)
         ELSE Classification("AUTH_ERROR", FALSE, Null, UserMessage.AUTH_ERROR)
    ELSE IF RowBilling(raw, lower, status)
    THEN Classification("BILLING_REQUIRED", FALSE, Null, UserMessage.BILLING_REQUIRED)
    ELSE IF Row400(raw, lower, status)
    THEN Classification("INVALID_REQUEST", FALSE, Null,
             UserMessage.INVALID_REQUEST_PREFIX \o SliceTo(raw, INVALID_DETAIL_CHARS))
    ELSE IF Row404(raw, lower, status)
    THEN Classification("FILE_EXPIRED", FALSE, Null, UserMessage.FILE_EXPIRED)
    ELSE IF Row500(raw, lower, status)
    THEN Classification("SERVER_ERROR", TRUE, Null, UserMessage.SERVER_ERROR)
    ELSE IF Row503(raw, lower, status)
    THEN Classification("SERVICE_UNAVAILABLE", TRUE, SERVICE_UNAVAILABLE_WAIT_MS,
                        UserMessage.SERVICE_UNAVAILABLE)
    ELSE IF Row504(raw, lower, status)
    THEN Classification("DEADLINE_EXCEEDED", FALSE, Null, UserMessage.DEADLINE_EXCEEDED)
    ELSE IF RowContext(raw, lower, status)
    THEN Classification("CONTEXT_OVERFLOW", TRUE, Null, UserMessage.CONTEXT_OVERFLOW)
    ELSE Classification("UNKNOWN", TRUE, Null,
                        IF raw # <<>> THEN raw ELSE UserMessage.UNKNOWN_DEFAULT)

(***************************************************************************)
(* Raw errors of the provider SDK and of the file system, as the remote    *)
(* calls and reads of a job raise them.  SDK errors carry their status in  *)
(* a bracketed token and, in the status field, the same code.              *)
(***************************************************************************)
ProviderMessage ==
    [ quota |->
       <<"[", "4", "2", "9", " ", "R", "E", "S", "O", "U", "R", "C", "E", "_", "E", "X", "H",
       "A", "U", "S", "T", "E", "D", "]", " ", "Y", "o", "u", " ", "e", "x", "c", "e", "e", "d",
       "e", "d", " ", "y", "o", "u", "r", " ", "c", "u", "r", "r", "e", "n", "t", " ", "q", "u",
       "o", "t", "a">>,
      rate |->
       <<"R", "a", "t", "e", " ", "l", "i", "m", "i", "t", " ", "r", "e", "a", "c", "h", "e",
       "d", " ", "f", "o", "r", " ", "r", "e", "q", "u", "e", "s", "t", "s", " ", "p", "e", "r",
       " ", "m", "i", "n", "u", "t", "e">>,
      leaked |->
       <<"[", "4", "0", "3", " ", "P", "E", "R", "M", "I", "S", "S", "I", "O", "N", "_", "D",
       "E", "N", "I", "E", "D", "]", " ", "Y", "o", "u", "r", " ", "A", "P", "I", " ", "k", "e",
       "y", " ", "w", "a", "s", " ", "r", "e", "p", "o", "r", "t", "e", "d", " ", "a", "s", " ",
       "l", "e", "a", "k", "e", "d">>,
      denied |->
       <<"[", "4", "0", "3", " ", "P", "E", "R", "M", "I", "S", "S", "I", "O", "N", "_", "D",
       "E", "N", "I", "E", "D", "]", " ", "A", "P", "I", " ", "k", "e", "y", " ", "n", "o", "t",
       " ", "v", "a", "l", "i", "d">>,
      billing |->
       <<"[", "4", "0", "0", " ", "F", "A", "I", "L", "E", "D", "_", "P", "R", "E", "C", "O",
       "N", "D", "I", "T", "I", "O", "N", "]", " ", "b", "i", "l", "l", "i", "n", "g", " ", "i",
       "s", " ", "n", "o", "t", " ", "e", "n", "a", "b", "l", "e", "d">>,
      invalid |->
       <<"[", "4", "0", "0", " ", "I", "N", "V", "A", "L", "I", "D", "_", "A", "R", "G", "U",
       "M", "E", "N", "T", "]", " ", "u", "n", "s", "u", "p", "p", "o", "r", "t", "e", "d", " ",
       "a", "u", "d", "i", "o", " ", "f", "o", "r", "m", "a", "t">>,
      notFound |->
       <<"[", "4", "0", "4", " ", "N", "O", "T", "_", "F", "O", "U", "N", "D", "]", " ", "f",
       "i", "l", "e", " ", "i", "s", " ", "g", "o", "n", "e">>,
      internal |->
       <<"[", "5", "0", "0", " ", "I", "N", "T", "E", "R", "N", "A", "L", "]", " ", "A", "n",
       " ", "i", "n", "t", "e", "r", "n", "a", "l", " ", "e", "r", "r", "o", "r", " ", "h", "a",
       "s", " ", "o", "c", "c", "u", "r", "r", "e", "d">>,
      overloaded |->
       <<"[", "5", "0", "3", " ", "U", "N", "A", "V", "A", "I", "L", "A", "B", "L", "E", "]",
       " ", "T", "h", "e", " ", "m", "o", "d", "e", "l", " ", "i", "s", " ", "o", "v", "e", "r",
       "l", "o", "a", "d", "e", "d">>,
      deadline |->
       <<"[", "5", "0", "4", " ", "D", "E", "A", "D", "L", "I", "N", "E", "_", "E", "X", "C",
       "E", "E", "D", "E", "D", "]", " ", "t", "o", "o", "k", " ", "t", "o", "o", " ", "l", "o",
       "n", "g">>,
      overflow |->
       <<"T", "h", "e", " ", "i", "n", "p", "u", "t", " ", "t", "o", "k", "e", "n", " ", "c",
       "o", "u", "n", "t", " ", "e", "x", "c", "e", "e", "d", "s", " ", "t", "h", "e", " ", "m",
       "a", "x", "i", "m", "u", "m", " ", "n", "u", "m", "b", "e", "r", " ", "a", "l", "l", "o",
       "w", "e", "d">>,
      network |->
       <<"f", "e", "t", "c", "h", " ", "f", "a", "i", "l", "e", "d">>,
      eacces |->
       <<"E", "A", "C", "C", "E", "S", ":", " ", "p", "e", "r", "m", "i", "s", "s", "i", "o",
       "n", " ", "d", "e", "n", "i", "e", "d", ",", " ", "o", "p", "e", "n", " ", "'", "/", "u",
       "p", "l", "o", "a", "d", "s", "/", "a", ".", "w", "e", "b", "m", "'">>,
      eisdir |->
       <<"E", "I", "S", "D", "I", "R", ":", " ", "i", "l", "l", "e", "g", "a", "l", " ", "o",
       "p", "e", "r", "a", "t", "i", "o", "n", " ", "o", "n", " ", "a", " ", "d", "i", "r", "e",
       "c", "t", "o", "r", "y", ",", " ", "r", "e", "a", "d">> ]


ProviderErrors ==
    { RawError(429, Null, ProviderMessage.quota),
      RawError(429, Null, ProviderMessage.rate),
      RawError(403, Null, ProviderMessage.leaked),
      RawError(Null, Null, ProviderMessage.denied),
      RawError(Null, Null, ProviderMessage.billing),
      RawError(400, Null, ProviderMessage.invalid),
      RawError(Null, Null, ProviderMessage.notFound),
      RawError(500, Null, ProviderMessage.internal),
      RawError(Null, 503, ProviderMessage.overloaded),
      RawError(504, Null, ProviderMessage.deadline),
      RawError(Null, Null, ProviderMessage.overflow),
      RawError(Null, Null, ProviderMessage.network) }

(***************************************************************************)
(* withSmartRetry.  The loop's state is a record: pc is the position       *)
(* ("call": about to invoke fn(attempt); "await": fn is running; "sleep":  *)
(* in the back-off wait; "returned" / "threw": finished), calls the        *)
(* attempt numbers fn was invoked with, fails the types its failures were  *)
(* classified as, waits the delays slept, reports the emit calls made.     *)
(***************************************************************************)
RetryIdle ==
    [pc |-> "idle", label |-> "none", maxAttempts |-> 0, baseMs |-> 0, attempt |-> 0,
     lastErr |-> NoError, calls |-> <<>>, fails |-> <<>>, waits |-> <<>>,
     reports |-> <<>>, result |-> "none", thrown |-> NoError]

RECURSIVE Pow2(_)
\* Math.pow(2, n)
Pow2(n) == IF n <= 0 THEN 1 ELSE 2 * Pow2(n - 1)

\* Math.round(waitMs / 1000)
RoundSec(waitMs) == (waitMs + 500) \div 1000

\* the throw after the loop: the last error, classified for the user
RetryExhausted(r, err) ==
    LET classified == classifyGeminiError(err)
    IN  [r EXCEPT !.pc = "threw",
                  !.thrown = GeminiUserError(classified.userMessage, classified.type)]

\* the loop running one attempt more than maxAttempts
withSmartRetry_ExtraAttempt(maxAttempts, baseMs, label) ==
    [RetryIdle EXCEPT !.label = label, !.maxAttempts = maxAttempts + 1, !.baseMs = baseMs,
                      !.attempt = 1, !.pc = "call"]

\* entry: let lastErr; for (let attempt = 1; attempt <= maxAttempts; ...)
withSmartRetry(maxAttempts, baseMs, label) ==
    LET r == [RetryIdle EXCEPT !.label = label, !.maxAttempts = maxAttempts,
                               !.baseMs = baseMs, !.attempt = 1]
    IN  IF 1 <= maxAttempts THEN [r EXCEPT !.pc = "call"]
        ELSE RetryExhausted(r, NoError)

\* return await fn(attempt): the invocation
RetryInvoke(r) == [r EXCEPT !.pc = "await", !.calls = Append(@, r.attempt)]

\* fn resolved: withSmartRetry returns its value
RetryReturn(r, value) == [r EXCEPT !.pc = "returned", !.result = value]

\* the wait with the classification's hint left out
RetryWaitMs_IgnoresHint(r, classified) == r.baseMs * Pow2(r.attempt - 1)

\* the wait before the next attempt: classified.waitMs ?? baseMs * 2^(attempt-1)
RetryWaitMs(r, classified) ==
    IF classified.waitMs # Null THEN classified.waitMs
    ELSE r.baseMs * Pow2(r.attempt - 1)

RetryReport(r, classified, waitMs) ==
    [stage |-> IF classified.type = "RATE_LIMITED" THEN "Rate limit - waiting"
               ELSE "Retrying",
     waitSec |-> RoundSec(waitMs), nextAttempt |-> r.attempt + 1,
     maxAttempts |-> r.maxAttempts]

\* the catch block with the retryable test left out
RetryCatch_IgnoresRetryable(r, err) ==
    LET classified == classifyGeminiError(err)
        failed == [r EXCEPT !.lastErr = err, !.fails = Append(@, classified.type)]
        waitMs == RetryWaitMs(r, classified)
    IN  IF r.attempt >= r.maxAttempts THEN RetryExhausted(failed, err)
        ELSE [failed EXCEPT !.pc = "sleep", !.waits = Append(@, waitMs),
                            !.reports = Append(@, RetryReport(r, classified, waitMs))]

\* the catch block breaking out of the loop one attempt early
RetryCatch_OffByOne(r, err) ==
    LET classified == classifyGeminiError(err)
        failed == [r EXCEPT !.lastErr = err, !.fails = Append(@, classified.type)]
        waitMs == RetryWaitMs(r, classified)
    IN  IF ~classified.retryable
        THEN [failed EXCEPT !.pc = "threw",
                  !.thrown = GeminiUserError(classified.userMessage, classified.type)]
        ELSE IF r.attempt + 1 >= r.maxAttempts THEN RetryExhausted(failed, err)
        ELSE [failed EXCEPT !.pc = "sleep", !.waits = Append(@, waitMs),
                            !.reports = Append(@, RetryReport(r, classified, waitMs))]

\* the catch block reporting the last failed attempt too
RetryCatch_ReportsFinal(r, err) ==
    LET classified == classifyGeminiError(err)
        waitMs == RetryWaitMs(r, classified)
        failed == [r EXCEPT !.lastErr = err, !.fails = Append(@, classified.type),
                            !.reports = Append(@, RetryReport(r, classified, waitMs))]
    IN  IF ~classified.retryable
        THEN [failed EXCEPT !.pc = "threw",
                  !.thrown = GeminiUserError(classified.userMessage, classified.type)]
        ELSE IF r.attempt >= r.maxAttempts THEN RetryExhausted(failed, err)
        ELSE [failed EXCEPT !.pc = "sleep", !.waits = Append(@, waitMs)]

\* fn rejected with err: the catch block, up to the throw or the sleep
RetryCatch(r, err) ==
    LET classified == classifyGeminiError(err)
        failed == [r EXCEPT !.lastErr = err, !.fails = Append(@, classified.type)]
        waitMs == RetryWaitMs(r, classified)
    IN  IF ~classified.retryable
        THEN [failed EXCEPT !.pc = "threw",
                  !.thrown = GeminiUserError(classified.userMessage, classified.type)]
        ELSE IF r.attempt >= r.maxAttempts THEN RetryExhausted(failed, err)
        ELSE [failed EXCEPT !.pc = "sleep", !.waits = Append(@, waitMs),
                            !.reports = Append(@, RetryReport(r, classified, waitMs))]

\* the sleep is over: attempt++ and the next iteration
RetryWake(r) == [r EXCEPT !.pc = "call", !.attempt = @ + 1]

(***************************************************************************)
(* The browser client: analyzeWithServer (src/services/api.ts) reads the   *)
(* analyze response as a stream of server-sent events.                     *)
(***************************************************************************)
\* setTimeout(() => controller.abort(), 10 * 60 * 1000)
ABORT_TIMEOUT_MS == 10 * 60 * 1000

\* the README's and the tests' abort timeout: 25 minutes
DOCUMENTED_TIMEOUT_MS == 25 * 60 * 1000

\* line.startsWith('data: ')
DataPrefix == <<"d", "a", "t", "a", ":", " ">>

StartsWith(text, prefix) ==
    Len(text) >= Len(prefix) /\ SubSeq(text, 1, Len(prefix)) = prefix

\* text.slice(n)
SliceFrom(text, n) == SubSeq(text, n + 1, Len(text))

\* text.split('\n'): the segments between the line feeds, the last one included
SplitLines(text) ==
    LET feeds == SelectSeq([k \in 1..Len(text) |-> k], LAMBDA k : text[k] = "\n")
        \* position of the j-th line feed; 0 and Len(text) + 1 bracket the text
        feed(j) == IF j = 0 THEN 0
                   ELSE IF j > Len(feeds) THEN Len(text) + 1
                   ELSE feeds[j]
    IN  [j \in 1..(Len(feeds) + 1) |-> SubSeq(text, feed(j - 1) + 1, feed(j) - 1)]

\* JSON values: kind is "string", "number", "boolean", "null", "object" or
\* "undefined" (an absent property); s holds a string's characters or a
\* number's digits, b a boolean, members an object's (key, value) pairs
JV(kind, s, b) == [kind |-> kind, s |-> s, b |-> b, members |-> <<>>]

JUndefined == JV("undefined", <<>>, FALSE)

JNull == JV("null", <<>>, FALSE)

JString(s) == JV("string", s, FALSE)

JObject(members) == [kind |-> "object", s |-> <<>>, b |-> FALSE, members |-> members]

ScanFail == [ok |-> FALSE, next |-> 0, v |-> JUndefined]

\* JSON.parse, string: the characters after the opening quote up to the closing
\* one, with the escapes \n, \", \\ and \/ decoded
RECURSIVE ScanChars(_, _, _)
ScanChars(t, i, acc) ==
    IF i > Len(t) \/ t[i] = "\n" THEN ScanFail
    ELSE IF t[i] = "\"" THEN [ok |-> TRUE, next |-> i + 1, v |-> JString(acc)]
    ELSE IF t[i] = "\\"
         THEN IF i + 1 > Len(t) THEN ScanFail
              ELSE IF t[i + 1] = "n" THEN ScanChars(t, i + 2, Append(acc, "\n"))
              ELSE IF t[i + 1] \in {"\"", "\\", "/"}
                   THEN ScanChars(t, i + 2, Append(acc, t[i + 1]))
              ELSE ScanFail
    ELSE ScanChars(t, i + 1, Append(acc, t[i]))

RECURSIVE ScanDigits(_, _, _)
ScanDigits(t, i, acc) ==
    IF i <= Len(t) /\ t[i] \in {Digits[d] : d \in 1..Len(Digits)}
    THEN ScanDigits(t, i + 1, Append(acc, t[i]))
    ELSE [ok |-> acc # <<>> /\ (Len(acc) = 1 \/ acc[1] # "0"), next |-> i,
          v |-> JV("number", acc, FALSE)]

Literal(t, i, word) == i + Len(word) - 1 <= Len(t) /\ SubSeq(t, i, i + Len(word) - 1) = word

\* JSON.parse, a scalar value at position i
ScanScalar(t, i) ==
    IF i > Len(t) THEN ScanFail
    ELSE IF t[i] = "\"" THEN ScanChars(t, i + 1, <<>>)
    ELSE IF Literal(t, i, <<"t", "r", "u", "e">>)
         THEN [ok |-> TRUE, next |-> i + 4, v |-> JV("boolean", <<>>, TRUE)]
    ELSE IF Literal(t, i, <<"f", "a", "l", "s", "e">>)
         THEN [ok |-> TRUE, next |-> i + 5, v |-> JV("boolean", <<>>, FALSE)]
    ELSE IF Literal(t, i, <<"n", "u", "l", "l">>)
         THEN [ok |-> TRUE, next |-> i + 4, v |-> JNull]
    ELSE ScanDigits(t, i, <<>>)

\* JSON.parse, the members of an object after its opening brace: "key":value
\* pairs separated by commas up to the closing brace
RECURSIVE ScanMembers(_, _, _)
ScanMembers(t, i, members) ==
    IF i > Len(t) \/ t[i] # "\"" THEN ScanFail
    ELSE LET key == ScanChars(t, i + 1, <<>>)
         IN  IF ~key.ok \/ key.next > Len(t) \/ t[key.next] # ":" THEN ScanFail
             ELSE LET val == ScanScalar(t, key.next + 1)
                      all == Append(members, <<key.v.s, val.v>>)
                  IN  IF ~val.ok \/ val.next > Len(t) THEN ScanFail
                      ELSE IF t[val.next] = "," THEN ScanMembers(t, val.next + 1, all)
                      ELSE IF t[val.next] = "}"
                           THEN [ok |-> TRUE, next |-> val.next + 1, v |-> JObject(all)]
                      ELSE ScanFail

\* JSON.parse(text) for a scalar or an object of scalars written without white
\* space (what JSON.stringify emits); ok = FALSE is the SyntaxError
JSONparse(text) ==
    LET top == IF text # <<>> /\ text[1] = "{"
               THEN IF Len(text) >= 2 /\ text[2] = "}"
                    THEN [ok |-> TRUE, next |-> 3, v |-> JObject(<<>>)]
                    ELSE ScanMembers(text, 2, <<>>)
               ELSE ScanScalar(text, 1)
    IN  IF top.ok /\ top.next = Len(text) + 1 THEN top ELSE ScanFail

\* event.key: the last member of that name, undefined when there is none
RECURSIVE Member(_, _, _)
Member(members, key, n) ==
    IF n = 0 THEN JUndefined
    ELSE IF members[n][1] = key THEN members[n][2]
    ELSE Member(members, key, n - 1)

Prop(event, key) == Member(event.members, key, Len(event.members))

\* every value taken for truthy
Truthy_Always(v) == v.kind = v.kind

\* JavaScript truthiness of a JSON value
Truthy(v) ==
    CASE v.kind = "string" -> v.s # <<>>
      [] v.kind = "number" -> v.s # <<"0">>
      [] v.kind = "boolean" -> v.b
      [] v.kind = "object" -> TRUE
      [] OTHER -> FALSE

\* String(v) of a truthy scalar (the message of new Error(v))
StringOf(v) ==
    CASE v.kind \in {"string", "number"} -> v.s
      [] v.kind = "boolean" -> <<"t", "r", "u", "e">>
      [] OTHER -> <<"[", "o", "b", "j", "e", "c", "t", " ", "O", "b", "j", "e", "c", "t", "]">>

Key ==
    [ done |-> <<"d", "o", "n", "e">>,
      error |-> <<"e", "r", "r", "o", "r">>,
      result |-> <<"r", "e", "s", "u", "l", "t">>,
      stage |-> <<"s", "t", "a", "g", "e">>,
      detail |-> <<"d", "e", "t", "a", "i", "l">> ]

ClientMessage ==
    [ noResult |-> <<"A", "n", "a", "l", "y", "s", "i", "s", " ", "s", "t", "r", "e", "a",
                     "m", " ", "e", "n", "d", "e", "d", " ", "w", "i", "t", "h", "o", "u", "t",
                     " ", "a", " ", "r", "e", "s", "u", "l", "t", ".">>,
      unexpectedEnd |-> <<"A", "n", "a", "l", "y", "s", "i", "s", " ", "s", "t", "r", "e", "a",
                          "m", " ", "e", "n", "d", "e", "d", " ", "u", "n", "e", "x", "p", "e",
                          "c", "t", "e", "d", "l", "y", " ", "w", "i", "t", "h", "o", "u", "t",
                          " ", "a", " ", "r", "e", "s", "u", "l", "t", ".">>,
      analysisFailed |-> <<"A", "n", "a", "l", "y", "s", "i", "s", " ", "f", "a", "i", "l",
                           "e", "d">>,
      notFound |-> <<"M", "e", "e", "t", "i", "n", "g", " ", "n", "o", "t", " ", "f", "o", "u",
                     "n", "d">>,
      aborted |-> <<"T", "h", "e", " ", "u", "s", "e", "r", " ", "a", "b", "o", "r", "t", "e",
                    "d", " ", "a", " ", "r", "e", "q", "u", "e", "s", "t", ".">>,
      network |-> <<"F", "a", "i", "l", "e", "d", " ", "t", "o", " ", "f", "e", "t", "c", "h">>,
      nullEvent |-> <<"C", "a", "n", "n", "o", "t", " ", "r", "e", "a", "d", " ", "p", "r",
                      "o", "p", "e", "r", "t", "i", "e", "s", " ", "o", "f", " ", "n", "u",
                      "l", "l">> ]

\* the lines the server writes, each followed by an empty line
WireLines ==
    << <<"d", "a", "t", "a", ":", " ", "{", "\"", "s", "t", "a", "g", "e", "\"", ":", "\"", "A",
         "\"", ",", "\"", "p", "e", "r", "c", "e", "n", "t", "\"", ":", "5", "}">>,
       <<"d", "a", "t", "a", ":", " ", "{", "\"", "s", "t", "a", "g", "e", "\"", ":", "\"", "B",
         "\"", ",", "\"", "d", "e", "t", "a", "i", "l", "\"", ":", "\"", "x", "\"", "}">>,
       <<"d", "a", "t", "a", ":", " ", "{", "\"", "d", "e", "t", "a", "i", "l", "\"", ":", "\"",
         "y", "\"", "}">>,
       <<"d", "a", "t", "a", ":", " ", "{", "\"", "d", "o", "n", "e", "\"", ":", "t", "r", "u",
         "e", ",", "\"", "r", "e", "s", "u", "l", "t", "\"", ":", "\"", "a", "\\", "n", "b",
         "\"", ",", "\"", "p", "e", "r", "c", "e", "n", "t", "\"", ":", "1", "0", "0", "}">>,
       <<"d", "a", "t", "a", ":", " ", "{", "\"", "s", "t", "a", "g", "e", "\"", ":", "\"", "E",
         "r", "r", "o", "r", "\"", ",", "\"", "e", "r", "r", "o", "r", "\"", ":", "\"", "b", "o",
         "o", "m", "\"", ",", "\"", "d", "o", "n", "e", "\"", ":", "t", "r", "u", "e", "}">>,
       <<"d", "a", "t", "a", ":", " ", "{", "\"", "d", "o", "n", "e", "\"", ":", "t", "r", "u",
         "e", "}">>,
       <<":", " ", "k", "e", "e", "p", "a", "l", "i", "v", "e">>,
       <<"d", "a", "t", "a", ":", " ", "{", "n", "o", "t", " ", "v", "a", "l", "i", "d", " ",
         "j", "s", "o", "n", "}">> >>

AppMessage ==
    [ timedOut |->
       <<"A", "n", "a", "l", "y", "s", "i", "s", " ", "t", "i", "m", "e", "d", " ", "o", "u",
       "t", " ", "a", "f", "t", "e", "r", " ", "1", "0", " ", "m", "i", "n", "u", "t", "e", "s",
       ".", " ", "T", "h", "e", " ", "r", "e", "c", "o", "r", "d", "i", "n", "g", " ", "m", "a",
       "y", " ", "b", "e", " ", "t", "o", "o", " ", "l", "a", "r", "g", "e", " ", "o", "r", " ",
       "G", "e", "m", "i", "n", "i", " ", "i", "s", " ", "t", "e", "m", "p", "o", "r", "a", "r",
       "i", "l", "y", " ", "u", "n", "a", "v", "a", "i", "l", "a", "b", "l", "e", ".", " ", "P",
       "l", "e", "a", "s", "e", " ", "t", "r", "y", " ", "a", "g", "a", "i", "n", ".">>,
      fallback |->
       <<"S", "o", "m", "e", "t", "h", "i", "n", "g", " ", "w", "e", "n", "t", " ", "w", "r",
       "o", "n", "g", " ", "d", "u", "r", "i", "n", "g", " ", "p", "r", "o", "c", "e", "s", "s",
       "i", "n", "g", ".">> ]

\* what analyzeWithServer settled with: kind is "none" (pending), "resolved"
\* (value is what it returned) or "rejected" (name and message of the error)
Settled(kind, value, name, message) ==
    [kind |-> kind, value |-> value, name |-> name, message |-> message]

Pending == Settled("none", JUndefined, "none", <<>>)

Resolved(value) == Settled("resolved", value, "none", <<>>)

Rejected(name, message) == Settled("rejected", JUndefined, name, message)

\* the body of the for loop for one line: calls are the onProgress calls made
\* so far; the outcome stays Pending unless the line returns or throws
ProcessLine(line, calls) ==
    IF ~StartsWith(line, DataPrefix) THEN [calls |-> calls, outcome |-> Pending]
    ELSE LET parsed == JSONparse(SliceFrom(line, 6))
             event == parsed.v
         IN  IF ~parsed.ok THEN [calls |-> calls, outcome |-> Pending]
             ELSE IF event.kind = "null"
                  THEN [calls |-> calls,
                        outcome |-> Rejected("TypeError", ClientMessage.nullEvent)]
             ELSE IF Truthy(Prop(event, Key.done))
                  THEN [calls |-> calls,
                        outcome |->
                            IF Truthy(Prop(event, Key.error))
                            THEN Rejected("Error", StringOf(Prop(event, Key.error)))
                            ELSE IF Truthy(Prop(event, Key.result))
                                 THEN Resolved(Prop(event, Key.result))
                            ELSE Rejected("Error", ClientMessage.noResult)]
             ELSE LET stage == Prop(event, Key.stage)
                  IN  [calls |-> Append(calls,
                                    [stage |-> IF stage.kind \in {"undefined", "null"}
                                               THEN JString(<<>>) ELSE stage,
                                     detail |-> Prop(event, Key.detail)]),
                       outcome |-> Pending]

\* for (const line of lines): stops at the first line that returns or throws
RECURSIVE ProcessLines(_, _)
ProcessLines(lines, calls) ==
    IF lines = <<>> THEN [calls |-> calls, outcome |-> Pending]
    ELSE LET one == ProcessLine(Head(lines), calls)
         IN  IF one.outcome.kind # "none" THEN one
             ELSE ProcessLines(Tail(lines), one.calls)

\* the unfinished last line is thrown away instead of kept
OnChunk_DropsPartial(buffer, chunk, calls) ==
    LET lines == SplitLines(buffer \o chunk)
        done == ProcessLines(SubSeq(lines, 1, Len(lines) - 1), calls)
    IN  [buffer |-> <<>>, calls |-> done.calls, outcome |-> done.outcome]

\* one iteration of the read loop on a chunk: buffer += chunk, the complete
\* lines are processed and the unfinished last line stays in the buffer
OnChunk(buffer, chunk, calls) ==
    LET lines == SplitLines(buffer \o chunk)
        done == ProcessLines(SubSeq(lines, 1, Len(lines) - 1), calls)
    IN  [buffer |-> lines[Len(lines)], calls |-> done.calls, outcome |-> done.outcome]

\* handleAnalyze before the call of analyzeWithServer
ClientIdle ==
    [pc |-> "idle", sent |-> <<>>, wire |-> <<>>, delivered |-> 0, buffer |-> <<>>,
     calls |-> <<>>, outcome |-> Pending, via |-> "none", elapsed |-> 0, armed |-> FALSE,
     aborted |-> FALSE, ui |-> "idle", uiError |-> <<>>, statusCalls |-> <<>>]

(***************************************************************************)
(* runAnalysis (geminiAnalyzer.js) building the parts of a request: the    *)
(* audio part, inline or staged through the File API, and the image parts. *)
(***************************************************************************)
INLINE_LIMIT_BYTES == 15 * 1024 * 1024

\* if (stat.size <= 20 * 1024 * 1024): the inline fallback after a failed upload
INLINE_FALLBACK_BYTES == 20 * 1024 * 1024

MAX_SCREENSHOTS == 40

MAX_POLL_ATTEMPTS == 120

POLL_INTERVAL_MS == 3000

\* Math.ceil(n / 2)
CeilHalf(n) == (n + 1) \div 2

(***************************************************************************)
(* JavaScript numbers are IEEE 754 doubles: 53 significant bits, results   *)
(* rounded to nearest, ties to even.  A double x with 1 <= x < 2^13 is     *)
(* held as <<int, d1, d2, d3, d4>>, its integer part and 52 fraction bits  *)
(* in four limbs of 13 bits: x = int + d1/B + d2/B^2 + d3/B^3 + d4/B^4.    *)
(***************************************************************************)
\* B, the base of a limb: 2^13
Limb == 8192

\* the number of bits of x >= 1
BitLength(x) == CHOOSE k \in 1..14 : Pow2(k - 1) <= x /\ x < Pow2(k)

\* the double nearest to x + (num / den) / B^4, where 0 <= num / den < 1:
\* the bits of d4 below the 53rd significant bit and the tail are dropped
RoundDouble(x, num, den) ==
    LET unit  == Pow2(BitLength(x[1]) - 1)
        low   == x[5] % unit
        kept  == x[5] - low
        twice == 2 * (low * den + num)
        up    == \/ twice > unit * den
                 \/ twice = unit * den /\ (kept \div unit) % 2 = 1
        s4    == kept + (IF up THEN unit ELSE 0)
        s3    == x[4] + (s4 \div Limb)
        s2    == x[3] + (s3 \div Limb)
        s1    == x[2] + (s2 \div Limb)
    IN  <<x[1] + (s1 \div Limb), s1 % Limb, s2 % Limb, s3 % Limb, s4 % Limb>>

\* n / c for integers n >= c >= 1
DivideDouble(n, c) ==
    LET t1 == (n % c) * Limb
        t2 == (t1 % c) * Limb
        t3 == (t2 % c) * Limb
        t4 == (t3 % c) * Limb
    IN  RoundDouble(<<n \div c, t1 \div c, t2 \div c, t3 \div c, t4 \div c>>, t4 % c, c)

\* i * x for an integer i >= 1
TimesDouble(i, x) ==
    LET m4 == i * x[5]
        m3 == i * x[4] + (m4 \div Limb)
        m2 == i * x[3] + (m3 \div Limb)
        m1 == i * x[2] + (m2 \div Limb)
    IN  RoundDouble(<<i * x[1] + (m1 \div Limb), m1 % Limb, m2 % Limb, m3 % Limb,
                      m4 % Limb>>, 0, 1)

\* Math.floor(i * step) for an integer i >= 0
FloorTimes(i, step) == IF i = 0 THEN 0 ELSE TimesDouble(i, step)[1]

\* sampleEvenly keeping the first count elements
sampleEvenly_Head(arr, count) ==
    IF Len(arr) <= count THEN arr ELSE SubSeq(arr, 1, count)

\* sampleEvenly(arr, count): arr itself when it is not longer than count, else
\* the count elements arr[Math.floor(i * step)], i = 0..count-1, where step
\* is arr.length / count
sampleEvenly(arr, count) ==
    IF Len(arr) <= count THEN arr
    ELSE [i \in 1..count |-> arr[FloorTimes(i - 1, DivideDouble(Len(arr), count)) + 1]]

\* the copy of sampleEvenly in the browser client (App.tsx)
sampleEvenlyClient(arr, count) ==
    IF Len(arr) <= count THEN arr
    ELSE [i \in 1..count |-> arr[FloorTimes(i - 1, DivideDouble(Len(arr), count)) + 1]]

\* a stored image is "ok", "oversized" (more than MAX_IMAGE_BYTES), "missing"
\* (fs.existsSync false) or "unreadable" (fs.statSync or readFileSync throws)
ImageKinds == {"ok", "oversized", "missing", "unreadable"}

\* section 2 of runAnalysis: the image parts pushed for imagePaths
ImageParts(imagePaths) ==
    LET imgs == sampleEvenly(SelectSeq(imagePaths, LAMBDA k : k # "missing"), MAX_SCREENSHOTS)
    IN  SelectSeq(imgs, LAMBDA k : k = "ok")

\* the imgs of the three strategies of analyzeRecording
StrategyImages(imagePaths) ==
    << imagePaths, sampleEvenly(imagePaths, CeilHalf(Len(imagePaths))), <<>> >>

\* runAnalysis before it is called
ReqIdle ==
    [pc |-> "idle", imagePaths |-> <<>>, built |-> <<>>, size |-> 0, parts |-> <<>>,
     up |-> RetryIdle, polls |-> 0, reports |-> 0, uploads |-> 0,
     fileState |-> "none", arr |-> <<>>, count |-> 0, result |-> <<>>,
     clientResult |-> <<>>, audio |-> "none", strat |-> 0, sent |-> <<>>,
     meta |-> <<>>, maxLen |-> 0, metaLen |-> 0, trimmedLen |-> 0, trimmedEnd |-> <<>>,
     raised |-> NoError, staged |-> 0]

(***************************************************************************)
(* State.                                                                  *)
(***************************************************************************)
VARIABLES
    clsErr,        \* the raw error handed to classifyGeminiError
    clsOut,        \* its classification, NoClassification before the call
    clientGone,    \* meetings.js: let clientGone ("peer gone" flag)
    writableEnded, \* res.writableEnded
    writeCalls,    \* number of res.write calls made (the mock's call count)
    endCalls,      \* number of res.end calls made
    chanRaised,    \* which channel operation let an exception escape, or "none"
    chanOps,       \* number of channel operations called so far
    rt,            \* the running withSmartRetry call
    pc,            \* position of the analyze handler's job
    status,        \* meetings.status of the job's meeting
    errorMessage,  \* meetings.error_message (<<>> for NULL)
    resultRow,     \* meeting_results.raw_markdown of the meeting ("none": no row)
    keepaliveOn,  \* the keepalive interval timer is armed
    runs,          \* analyzeRecording: the strategies started, with their outcome
    lastErr,       \* analyzeRecording: let lastErr
    returned,      \* the handler's rawMarkdown (what analyzeRecording returned)
    caught,        \* the handler's catch (err)
    hist,          \* history of the job (for the properties only)
    cli,           \* the browser's analyzeWithServer call and the handleAnalyze around it
    req            \* runAnalysis building the parts of a request

clsVars == <<clsErr, clsOut>>

chanVars == <<clientGone, writableEnded, writeCalls, endCalls, chanRaised, chanOps>>

jobVars ==
    <<pc, status, errorMessage, resultRow, keepaliveOn, runs, lastErr, returned, caught,
      hist>>

\* the state of the specifications that follow the analyze job
otherVars == <<cli, req>>

vars == <<clsVars, chanVars, rt, jobVars, otherVars>>

(***************************************************************************)
(* The classifier on its own: SpecClassify draws a raw error and applies   *)
(* classifyGeminiError to it.                                              *)
(***************************************************************************)
VocabWords == {Vocab[i] : i \in 1..Len(Vocab)}

RECURSIVE MessagesOf(_)
MessagesOf(n) ==
    IF n = 0 THEN {<<>>}
    ELSE LET shorter == MessagesOf(n - 1)
         IN  shorter \cup
             {IF m = <<>> THEN w ELSE m \o <<" ">> \o w : m \in shorter, w \in VocabWords}

Messages == MessagesOf(MaxWords)

StatusCodes == {400, 403, 404, 429, 500, 503, 504}

\* (status, statusCode) of the generated errors: none, either one, or both
StatusFields ==
    {<<Null, Null>>} \cup {<<s, Null>> : s \in StatusCodes}
        \cup {<<Null, s>> : s \in {429, 503}} \cup {<<200, 429>>}

ClassifierInputs ==
    {RawError(sf[1], sf[2], m) : sf \in StatusFields, m \in Messages}

ClsIdle == clsErr = NoError /\ clsOut = NoClassification

OtherIdle == cli = ClientIdle /\ req = ReqIdle

ChanIdle ==
    /\ clientGone = FALSE
    /\ writableEnded = FALSE
    /\ writeCalls = 0
    /\ endCalls = 0
    /\ chanRaised = "none"
    /\ chanOps = 0

NoEvent == [kind |-> "none", result |-> "none", error |-> <<>>]

NoHistory ==
    [modelCalls |-> 0, savedCompleted |-> FALSE,
     errWriteFailed |-> FALSE, doneSends |-> 0, doneSent |-> NoEvent,
     doneWrites |-> 0, faults |-> {}, escaped |-> FALSE, raised |-> NoError,
     stageSends |-> FALSE, stageAfterDone |-> FALSE]

\* the history h after n calls of send with a stage event
StageSent(h, n) ==
    IF n = 0 THEN h
    ELSE [h EXCEPT !.stageSends = TRUE, !.stageAfterDone = @ \/ h.doneSends > 0]

JobIdle ==
    /\ pc = "idle"
    /\ status = "pending"
    /\ errorMessage = <<>>
    /\ resultRow = "none"
    /\ keepaliveOn = FALSE
    /\ runs = <<>>
    /\ lastErr = NoError
    /\ returned = "none"
    /\ caught = NoError
    /\ hist = NoHistory

InitClassify ==
    /\ OtherIdle
    /\ clsErr \in ClassifierInputs
    /\ clsOut = NoClassification
    /\ ChanIdle
    /\ rt = RetryIdle
    /\ JobIdle

Classify ==
    /\ clsOut = NoClassification
    /\ clsOut' = classifyGeminiError(clsErr)
    /\ UNCHANGED <<clsErr, chanVars, rt, jobVars, otherVars>>

NextClassify == Classify

SpecClassify == InitClassify /\ [][NextClassify]_vars

(***************************************************************************)
(* The progress channel of the analyze handler (meetings.js 157-183 and    *)
(* 264-269).  Each operation is given the outcome of the transport call it *)
(* may make (writeThrows, endThrows) and yields the new flag, whether the  *)
(* transport was called, and whether an exception escaped the operation.   *)
(***************************************************************************)
\* send without the try/catch around res.write
send_NoCatch(gone, ended, writeThrows) ==
    IF ended \/ gone
    THEN [clientGone |-> gone, wrote |-> FALSE, threw |-> FALSE]
    ELSE [clientGone |-> gone, wrote |-> TRUE, threw |-> writeThrows]

\* send without the guard on writableEnded / clientGone
send_NoGuard(gone, ended, writeThrows) ==
    [clientGone |-> gone \/ writeThrows, wrote |-> TRUE, threw |-> FALSE]

\* send marking the peer gone and then letting the write error out
send_Rethrows(gone, ended, writeThrows) ==
    IF ended \/ gone
    THEN [clientGone |-> gone, wrote |-> FALSE, threw |-> FALSE]
    ELSE IF writeThrows
    THEN [clientGone |-> TRUE, wrote |-> TRUE, threw |-> TRUE]
    ELSE [clientGone |-> gone, wrote |-> TRUE, threw |-> FALSE]

send(gone, ended, writeThrows) ==
    IF ended \/ gone
    THEN [clientGone |-> gone, wrote |-> FALSE, threw |-> FALSE]
    ELSE IF writeThrows
    THEN [clientGone |-> TRUE, wrote |-> TRUE, threw |-> FALSE]
    ELSE [clientGone |-> gone, wrote |-> TRUE, threw |-> FALSE]

\* the body of the setInterval callback
keepaliveWrite(gone, ended, writeThrows) ==
    IF ended \/ gone
    THEN [clientGone |-> gone, wrote |-> FALSE, threw |-> FALSE]
    ELSE IF writeThrows
    THEN [clientGone |-> TRUE, wrote |-> TRUE, threw |-> FALSE]
    ELSE [clientGone |-> gone, wrote |-> TRUE, threw |-> FALSE]

\* res.end(): a call that returns ends the stream; one that throws may or may
\* not have marked it ended (endMarks)
resEnd(endThrows, endMarks) == IF endThrows THEN endMarks ELSE TRUE

\* finalEnd calling res.end() without looking at writableEnded
finalEnd_NoGuard(ended, endThrows, endMarks) ==
    [writableEnded |-> ended \/ resEnd(endThrows, endMarks), called |-> TRUE,
     threw |-> FALSE]

\* the finally block: if (!res.writableEnded) { try { res.end(); } catch (_) {} }
finalEnd(ended, endThrows, endMarks) ==
    IF ended
    THEN [writableEnded |-> TRUE, called |-> FALSE, threw |-> FALSE]
    ELSE [writableEnded |-> resEnd(endThrows, endMarks), called |-> TRUE,
          threw |-> FALSE]

\* req.on('close', () => { clientGone = true; })
onClose(gone) == TRUE

(***************************************************************************)
(* analyzeRecording: the fallback chain.                                   *)
(***************************************************************************)
\* the order with the last two strategies exchanged
strategies_Swapped == <<"Full", "Audio only", "Reduced images (50%)">>

\* const strategies = [...]: the labels, in the order tried
strategies == <<"Full", "Reduced images (50%)", "Audio only">>

\* const nonRetryableTypes = [...]
\* the list of the fallback loop without the deadline kind
nonRetryableTypes_NoDeadline ==
    {"QUOTA_EXHAUSTED", "AUTH_ERROR", "KEY_LEAKED", "BILLING_REQUIRED",
     "FILE_EXPIRED", "INVALID_REQUEST"}

nonRetryableTypes ==
    {"QUOTA_EXHAUSTED", "AUTH_ERROR", "KEY_LEAKED", "BILLING_REQUIRED",
     "DEADLINE_EXCEEDED", "FILE_EXPIRED", "INVALID_REQUEST"}

\* isCapacityError: the type, or the (case-sensitive) wording of the message
isCapacityError(err) ==
    \/ err.type = "CONTEXT_OVERFLOW"
    \/ err.type = "SERVER_ERROR"
    \/ Includes(err.message, Keyword.RESOURCE_EXHAUSTED)
    \/ Includes(err.message, Keyword.token)
    \/ Includes(err.message, Keyword.too_large)
    \/ Includes(err.message, Keyword.exceeds)
    \/ Includes(err.message, Keyword.context_length)

\* the final throw: lastErr itself when user-facing, else its classification
FinalError(err) ==
    IF err.cls = "GeminiUserError" THEN err
    ELSE LET classified == classifyGeminiError(err)
         IN  GeminiUserError(classified.userMessage, classified.type)

\* the catch block going on to the next strategy after any failure that is
\* not of a non-retryable type
StrategyCatch_NoBreak(err, strat) ==
    IF err.cls = "GeminiUserError" /\ err.type \in nonRetryableTypes
    THEN [do |-> "throw", error |-> err]
    ELSE IF strat >= Len(strategies)
    THEN [do |-> "throw", error |-> FinalError(err)]
    ELSE [do |-> "next", error |-> NoError]

\* the catch block raising a generic error once the last strategy has failed
StrategyCatch_GenericAtEnd(err, strat) ==
    IF err.cls = "GeminiUserError" /\ err.type \in nonRetryableTypes
    THEN [do |-> "throw", error |-> err]
    ELSE IF ~isCapacityError(err)
    THEN [do |-> "throw", error |-> FinalError(err)]
    ELSE IF strat >= Len(strategies)
    THEN [do |-> "throw", error |-> GeminiUserError(UserMessage.UNKNOWN_DEFAULT, "UNKNOWN")]
    ELSE [do |-> "next", error |-> NoError]

\* the catch block of the strategy loop, for the error err of strategy number
\* strat: "throw" with the error raised to the caller, or "next"
StrategyCatch(err, strat) ==
    IF err.cls = "GeminiUserError" /\ err.type \in nonRetryableTypes
    THEN [do |-> "throw", error |-> err]
    ELSE IF ~isCapacityError(err)
    THEN [do |-> "throw", error |-> FinalError(err)]
    ELSE IF strat >= Len(strategies)
    THEN [do |-> "throw", error |-> FinalError(err)]
    ELSE [do |-> "next", error |-> NoError]

(***************************************************************************)
(* Other errors and values of a job.                                       *)
(***************************************************************************)
\* what fs.readFileSync raises on an audio file that exists but cannot be read
FsErrors ==
    { RawError(Null, Null, ProviderMessage.eacces),
      RawError(Null, Null, ProviderMessage.eisdir) }

\* new Error('Gemini returned an empty response. Please try again.')
EmptyResponseError == RawError(Null, Null, ErrorText.EmptyResponse)

\* what res.write raises on a broken connection
WriteError == RawError(Null, Null, ErrorText.WriteFailed)

\* what execute raises when the statement fails
DbError == RawError(Null, Null, ErrorText.DbFailed)

\* what generateContent is made to raise in a job
ModelErrors ==
    { RawError(429, Null, ProviderMessage.quota),
      RawError(429, Null, ProviderMessage.rate),
      RawError(403, Null, ProviderMessage.leaked),
      RawError(500, Null, ProviderMessage.internal),
      RawError(Null, Null, ProviderMessage.overflow) }

\* audioFilePath && fs.existsSync(audioFilePath), and the size at most
\* INLINE_LIMIT_BYTES: no audio part, or one read inline
AudioInputs == {"none", "inline"}

\* response.text of generateContent: a document, or nothing
ModelTexts == {"docA", "docB", ""}

RECURSIVE sendAll(_, _, _)
\* consecutive send calls, writeThrows[k] the outcome of the k-th res.write
sendAll(gone, ended, writeThrows) ==
    IF writeThrows = <<>> THEN [clientGone |-> gone, threw |-> FALSE]
    ELSE LET r == send(gone, ended, Head(writeThrows))
         IN  IF r.threw THEN [clientGone |-> r.clientGone, threw |-> TRUE]
             ELSE sendAll(r.clientGone, ended, Tail(writeThrows))

(***************************************************************************)
(* The channel on its own (the harness of the SSE helper tests): any       *)
(* sequence of at most MaxChannelCalls operations, each transport call     *)
(* free to throw.                                                          *)
(***************************************************************************)
InitChannel ==
    /\ ClsIdle
    /\ OtherIdle
    /\ clientGone = FALSE
    /\ writableEnded \in BOOLEAN
    /\ writeCalls = 0
    /\ endCalls = 0
    /\ chanRaised = "none"
    /\ chanOps = 0
    /\ rt = RetryIdle
    /\ JobIdle

Raised(op, threw) == IF threw /\ chanRaised = "none" THEN op ELSE chanRaised

ChanSend ==
    /\ chanOps < MaxChannelCalls
    /\ \E writeThrows \in BOOLEAN :
        LET r == send(clientGone, writableEnded, writeThrows)
        IN  /\ clientGone' = r.clientGone
            /\ writeCalls' = writeCalls + (IF r.wrote THEN 1 ELSE 0)
            /\ chanRaised' = Raised("send", r.threw)
    /\ chanOps' = chanOps + 1
    /\ UNCHANGED <<writableEnded, endCalls, clsVars, rt, jobVars, otherVars>>

ChanKeepalive ==
    /\ chanOps < MaxChannelCalls
    /\ \E writeThrows \in BOOLEAN :
        LET r == keepaliveWrite(clientGone, writableEnded, writeThrows)
        IN  /\ clientGone' = r.clientGone
            /\ writeCalls' = writeCalls + (IF r.wrote THEN 1 ELSE 0)
            /\ chanRaised' = Raised("keepalive", r.threw)
    /\ chanOps' = chanOps + 1
    /\ UNCHANGED <<writableEnded, endCalls, clsVars, rt, jobVars, otherVars>>

ChanFinalEnd ==
    /\ chanOps < MaxChannelCalls
    /\ \E endThrows \in BOOLEAN, endMarks \in BOOLEAN :
        LET r == finalEnd(writableEnded, endThrows, endMarks)
        IN  /\ writableEnded' = r.writableEnded
            /\ endCalls' = endCalls + (IF r.called THEN 1 ELSE 0)
            /\ chanRaised' = Raised("finalEnd", r.threw)
    /\ chanOps' = chanOps + 1
    /\ UNCHANGED <<clientGone, writeCalls, clsVars, rt, jobVars, otherVars>>

ChanReqClose ==
    /\ chanOps < MaxChannelCalls
    /\ clientGone' = onClose(clientGone)
    /\ chanOps' = chanOps + 1
    /\ UNCHANGED <<writableEnded, writeCalls, endCalls, chanRaised, clsVars, rt, jobVars, otherVars>>

NextChannel == ChanSend \/ ChanKeepalive \/ ChanFinalEnd \/ ChanReqClose

SpecChannel == InitChannel /\ [][NextChannel]_vars

(***************************************************************************)
(* The retry engine on its own: withSmartRetry around an operation that,   *)
(* on each invocation, returns or raises any of the provider errors.       *)
(***************************************************************************)
InitRetry ==
    /\ ClsIdle
    /\ OtherIdle
    /\ ChanIdle
    /\ JobIdle
    /\ \E maxAttempts \in 0..MaxAttemptsArg, baseMs \in {RETRY_BASE_MS, 1000} :
           rt = withSmartRetry(maxAttempts, baseMs, "operation")

RetryCallFn ==
    /\ rt.pc = "call"
    /\ rt' = RetryInvoke(rt)
    /\ UNCHANGED <<clsVars, chanVars, jobVars, otherVars>>

RetryFnResolves ==
    /\ rt.pc = "await"
    /\ rt' = RetryReturn(rt, "ok")
    /\ UNCHANGED <<clsVars, chanVars, jobVars, otherVars>>

RetryFnRejects ==
    /\ rt.pc = "await"
    /\ \E err \in ProviderErrors : rt' = RetryCatch(rt, err)
    /\ UNCHANGED <<clsVars, chanVars, jobVars, otherVars>>

RetrySleepOver ==
    /\ rt.pc = "sleep"
    /\ rt' = RetryWake(rt)
    /\ UNCHANGED <<clsVars, chanVars, jobVars, otherVars>>

NextRetry == RetryCallFn \/ RetryFnResolves \/ RetryFnRejects \/ RetrySleepOver

SpecRetry == InitRetry /\ [][NextRetry]_vars

(***************************************************************************)
(* One analysis job: POST /:id/analyze running analyzeRecording,           *)
(* runAnalysis and withSmartRetry.  Each action is one synchronous segment *)
(* of the handler; the keepalive timer and the request's close event run   *)
(* only where the handler is suspended in an await.  Every res.write and   *)
(* res.end, every database statement, the read of the audio file and the   *)
(* model call are free to fail.                                            *)
(***************************************************************************)
\* Persist result without the UPDATE of the status
persistResult_NoStatus(dbOutcome, markdown, curStatus, curRow) ==
    IF dbOutcome = "deleteThrows"
    THEN [status |-> curStatus, resultRow |-> curRow, threw |-> TRUE]
    ELSE IF dbOutcome = "insertThrows"
    THEN [status |-> curStatus, resultRow |-> "none", threw |-> TRUE]
    ELSE IF dbOutcome = "updateThrows"
    THEN [status |-> curStatus, resultRow |-> markdown, threw |-> TRUE]
    ELSE [status |-> curStatus, resultRow |-> markdown, threw |-> FALSE]

\* Persist result with the UPDATE of the status ahead of the INSERT
persistResult_StatusFirst(dbOutcome, markdown, curStatus, curRow) ==
    IF dbOutcome = "deleteThrows"
    THEN [status |-> curStatus, resultRow |-> curRow, threw |-> TRUE]
    ELSE IF dbOutcome = "updateThrows"
    THEN [status |-> curStatus, resultRow |-> "none", threw |-> TRUE]
    ELSE IF dbOutcome = "insertThrows"
    THEN [status |-> "completed", resultRow |-> "none", threw |-> TRUE]
    ELSE [status |-> "completed", resultRow |-> markdown, threw |-> FALSE]

\* the handler's three statements that persist a result, up to the first one
\* that throws: DELETE, INSERT, UPDATE ... status = 'completed'
persistResult(dbOutcome, markdown, curStatus, curRow) ==
    IF dbOutcome = "deleteThrows"
    THEN [status |-> curStatus, resultRow |-> curRow, threw |-> TRUE]
    ELSE IF dbOutcome = "insertThrows"
    THEN [status |-> curStatus, resultRow |-> "none", threw |-> TRUE]
    ELSE IF dbOutcome = "updateThrows"
    THEN [status |-> curStatus, resultRow |-> markdown, threw |-> TRUE]
    ELSE [status |-> "completed", resultRow |-> markdown, threw |-> FALSE]

PersistOutcomes == {"ok", "deleteThrows", "insertThrows", "updateThrows"}

\* the catch block saving a fixed text instead of err.message
persistError_Generic(dbThrows, err, curStatus, curMessage) ==
    IF dbThrows
    THEN [status |-> curStatus, errorMessage |-> curMessage, failed |-> TRUE]
    ELSE [status |-> "error", errorMessage |-> UserMessage.UNKNOWN_DEFAULT,
          failed |-> FALSE]

\* the catch block without its UPDATE
persistError_Skipped(dbThrows, err, curStatus, curMessage) ==
    [status |-> curStatus, errorMessage |-> curMessage, failed |-> FALSE]

\* the catch block's UPDATE ... status = 'error', error_message = err.message,
\* inside its own try/catch
persistError(dbThrows, err, curStatus, curMessage) ==
    IF dbThrows
    THEN [status |-> curStatus, errorMessage |-> curMessage, failed |-> TRUE]
    ELSE [status |-> "error", errorMessage |-> err.message, failed |-> FALSE]

\* the rows a meeting can have when its analysis is requested: new, failed
\* before, or analysed before
StoredMeetings ==
    { [status |-> "pending", errorMessage |-> <<>>, resultRow |-> "none"],
      [status |-> "error", errorMessage |-> UserMessage.SERVER_ERROR,
       resultRow |-> "none"],
      [status |-> "completed", errorMessage |-> <<>>, resultRow |-> "docA"] }

Run(label) == [label |-> label, outcome |-> "running", error |-> NoError, output |-> "none"]

Init ==
    /\ ClsIdle
    /\ OtherIdle
    /\ clientGone = FALSE
    /\ writableEnded = FALSE
    /\ writeCalls = 0
    /\ endCalls = 0
    /\ chanRaised = "none"
    /\ chanOps = 0
    /\ rt = RetryIdle
    /\ pc = "begin"
    /\ \E m \in StoredMeetings :
          /\ status = m.status
          /\ errorMessage = m.errorMessage
          /\ resultRow = m.resultRow
    /\ keepaliveOn = TRUE
    /\ runs = <<>>
    /\ lastErr = NoError
    /\ returned = "none"
    /\ caught = NoError
    /\ hist = NoHistory

harness == <<clsVars, writeCalls, endCalls, chanRaised, chanOps, otherVars>>

\* UPDATE ... status = 'processing'; the inputs query; send Starting
BeginJob ==
    /\ pc = "begin"
    /\ \E dbOutcome \in {"ok", "updateThrows", "queryThrows"}, writeThrows \in BOOLEAN :
          LET r == send(clientGone, writableEnded, writeThrows)
          IN  /\ status' = IF dbOutcome = "updateThrows" THEN status ELSE "processing"
              /\ errorMessage' = IF dbOutcome = "updateThrows" THEN errorMessage ELSE <<>>
              /\ IF dbOutcome # "ok"
                 THEN /\ caught' = DbError
                      /\ pc' = "catch"
                      /\ UNCHANGED clientGone
                 ELSE /\ clientGone' = r.clientGone
                      /\ caught' = IF r.threw THEN WriteError ELSE caught
                      /\ pc' = IF r.threw THEN "catch" ELSE "strategy"
              /\ hist' = StageSent(hist, IF dbOutcome = "ok" THEN 1 ELSE 0)
    /\ UNCHANGED <<harness, writableEnded, rt, resultRow, keepaliveOn, runs,
                   lastErr, returned>>

\* for (const strategy of strategies): the next one, announced unless 'Full'
StartStrategy ==
    /\ pc = "strategy"
    /\ Len(runs) < Len(strategies)
    /\ LET label == strategies[Len(runs) + 1]
       IN  /\ runs' = Append(runs, Run(label))
           /\ hist' = StageSent(hist, IF label # "Full" THEN 1 ELSE 0)
           /\ \E writeThrows \in BOOLEAN :
                 LET r == IF label # "Full"
                          THEN sendAll(clientGone, writableEnded, <<writeThrows>>)
                          ELSE sendAll(clientGone, writableEnded, <<>>)
                 IN  /\ clientGone' = r.clientGone
                     /\ lastErr' = IF r.threw THEN WriteError ELSE lastErr
                     /\ pc' = IF r.threw THEN "stratCatch" ELSE "prepare"
    /\ UNCHANGED <<harness, writableEnded, rt, status, errorMessage, resultRow,
                   keepaliveOn, returned, caught>>

\* runAnalysis up to the call of withSmartRetry: the audio part (read inline),
\* the images, the metadata, 'Sending to Gemini'
PrepareParts ==
    /\ pc = "prepare"
    /\ \E audio \in AudioInputs, writeThrows \in [1..4 -> BOOLEAN] :
        \E readErr \in (IF audio = "inline" THEN FsErrors ELSE {}) \cup {NoError} :
          LET before == IF audio = "inline" THEN 2 ELSE 0
              count == IF readErr = NoError THEN before + 2 ELSE before
              r == sendAll(clientGone, writableEnded, SubSeq(writeThrows, 1, count))
          IN  /\ clientGone' = r.clientGone
              /\ hist' = StageSent(hist, count)
              /\ IF r.threw
                 THEN /\ lastErr' = WriteError
                      /\ pc' = "stratCatch"
                      /\ UNCHANGED rt
                 ELSE IF readErr # NoError
                 THEN /\ lastErr' = readErr
                      /\ pc' = "stratCatch"
                      /\ UNCHANGED rt
                 ELSE /\ rt' = withSmartRetry(MAX_RETRIES, RETRY_BASE_MS, "generateContent")
                      /\ pc' = "model"
                      /\ UNCHANGED lastErr
    /\ UNCHANGED <<harness, writableEnded, status, errorMessage, resultRow, keepaliveOn,
                   runs, returned, caught>>

\* fn(attempt) failed with err: withSmartRetry's catch block, its report when
\* it goes on, and the way out of runAnalysis when it throws
FnFailed(r0, err, h) ==
    \E r1 \in {RetryCatch(r0, err)}, writeThrows \in BOOLEAN :
           LET s == IF r1.pc = "sleep"
                    THEN sendAll(clientGone, writableEnded, <<writeThrows>>)
                    ELSE sendAll(clientGone, writableEnded, <<>>)
           IN  /\ clientGone' = s.clientGone
               /\ hist' = StageSent(h, IF r1.pc = "sleep" THEN 1 ELSE 0)
               /\ IF s.threw
                  THEN /\ rt' = [r1 EXCEPT !.pc = "threw", !.thrown = WriteError]
                       /\ lastErr' = WriteError
                       /\ pc' = "stratCatch"
                  ELSE IF r1.pc = "threw"
                  THEN /\ rt' = r1
                       /\ lastErr' = r1.thrown
                       /\ pc' = "stratCatch"
                  ELSE /\ rt' = r1
                       /\ pc' = "model"
                       /\ UNCHANGED lastErr

\* fn(attempt): 'Analyzing' / 'Retrying' and the call of generateContent
CallModel ==
    /\ pc = "model"
    /\ rt.pc = "call"
    /\ \E writeThrows \in BOOLEAN :
          LET r == send(clientGone, writableEnded, writeThrows)
          IN  IF r.threw
              THEN FnFailed(RetryInvoke(rt), WriteError, StageSent(hist, 1))
              ELSE /\ clientGone' = r.clientGone
                   /\ rt' = RetryInvoke(rt)
                   /\ hist' = [StageSent(hist, 1) EXCEPT !.modelCalls = @ + 1]
                   /\ UNCHANGED <<pc, lastErr>>
    /\ UNCHANGED <<harness, writableEnded, status, errorMessage, resultRow, keepaliveOn,
                   runs, returned, caught>>

\* generateContent resolves: its text is the result, an empty one an error
ModelResolves ==
    /\ pc = "model"
    /\ rt.pc = "await"
    /\ \E text \in ModelTexts :
          IF text = ""
          THEN /\ FnFailed(rt, EmptyResponseError, hist)
               /\ UNCHANGED <<runs, returned>>
          ELSE /\ rt' = RetryReturn(rt, text)
               /\ runs' = [runs EXCEPT ![Len(runs)] =
                              [@ EXCEPT !.outcome = "returned", !.output = rt'.result]]
               /\ returned' = rt'.result
               /\ pc' = "persist"
               /\ UNCHANGED <<clientGone, lastErr, hist>>
    /\ UNCHANGED <<harness, writableEnded, status, errorMessage, resultRow, keepaliveOn,
                   caught>>

\* generateContent rejects
ModelRejects ==
    /\ pc = "model"
    /\ rt.pc = "await"
    /\ \E err \in ModelErrors : FnFailed(rt, err, hist)
    /\ UNCHANGED <<harness, writableEnded, status, errorMessage, resultRow, keepaliveOn,
                   runs, returned, caught>>

\* await sleep(waitMs) is over
SleepOver ==
    /\ pc = "model"
    /\ rt.pc = "sleep"
    /\ rt' = RetryWake(rt)
    /\ UNCHANGED <<harness, clientGone, writableEnded, jobVars>>

\* analyzeRecording's catch (err), and its final throw
StrategyCatchStep ==
    /\ pc = "stratCatch"
    /\ \E d \in {StrategyCatch(lastErr, Len(runs))} :
           /\ runs' = [runs EXCEPT ![Len(runs)] =
                          [@ EXCEPT !.outcome = "threw", !.error = lastErr]]
           /\ IF d.do = "throw"
              THEN /\ caught' = d.error
                   /\ hist' = [hist EXCEPT !.raised = d.error]
                   /\ pc' = "catch"
              ELSE /\ pc' = "strategy"
                   /\ UNCHANGED <<caught, hist>>
    /\ UNCHANGED <<harness, clientGone, writableEnded, rt, status, errorMessage,
                   resultRow, keepaliveOn, lastErr, returned>>

\* Persist result
PersistResult ==
    /\ pc = "persist"
    /\ \E dbOutcome \in PersistOutcomes :
          LET p == persistResult(dbOutcome, returned, status, resultRow)
          IN  /\ status' = p.status
              /\ resultRow' = p.resultRow
              /\ caught' = IF p.threw THEN DbError ELSE caught
              /\ pc' = IF p.threw THEN "catch" ELSE "sendDone"
              /\ hist' = [hist EXCEPT !.savedCompleted = @ \/ (p.status = "completed" /\ ~p.threw)]
    /\ UNCHANGED <<harness, clientGone, writableEnded, rt, errorMessage, keepaliveOn,
                   runs, lastErr, returned>>

\* send({ stage: 'Done', ..., done: true, result: rawMarkdown })
SendDone ==
    /\ pc = "sendDone"
    /\ \E writeThrows \in BOOLEAN :
          LET r == send(clientGone, writableEnded, writeThrows)
          IN  /\ clientGone' = r.clientGone
              /\ hist' = [hist EXCEPT !.doneSends = @ + 1,
                             !.doneSent = [kind |-> "result", result |-> returned,
                                           error |-> <<>>],
                             !.doneWrites = IF r.wrote THEN @ + 1 ELSE @,
                             !.faults = IF r.wrote /\ writeThrows
                                        THEN @ \cup {"done write"} ELSE @]
              /\ caught' = IF r.threw THEN WriteError ELSE caught
              /\ pc' = IF r.threw THEN "catch" ELSE "finally"
    /\ UNCHANGED <<harness, writableEnded, rt, status, errorMessage, resultRow,
                   keepaliveOn, runs, lastErr, returned>>

\* catch (err): save the error state, failing silently
CatchPersist ==
    /\ pc = "catch"
    /\ \E dbThrows \in BOOLEAN :
          LET p == persistError(dbThrows, caught, status, errorMessage)
          IN  /\ status' = p.status
              /\ errorMessage' = p.errorMessage
              /\ hist' = [hist EXCEPT !.errWriteFailed = @ \/ p.failed]
    /\ pc' = "sendError"
    /\ UNCHANGED <<harness, clientGone, writableEnded, rt, resultRow, keepaliveOn,
                   runs, lastErr, returned, caught>>

\* the catch block ending without its terminal event
SendError_NoEvent ==
    /\ pc = "sendError"
    /\ pc' = "finally"
    /\ UNCHANGED <<harness, clientGone, writableEnded, rt, status, errorMessage,
                   resultRow, keepaliveOn, runs, lastErr, returned, caught, hist>>

\* send({ stage: 'Error', error: err.message, done: true })
SendError ==
    /\ pc = "sendError"
    /\ \E writeThrows \in BOOLEAN :
          LET r == send(clientGone, writableEnded, writeThrows)
          IN  /\ clientGone' = r.clientGone
              /\ hist' = [hist EXCEPT !.doneSends = @ + 1,
                             !.doneSent = [kind |-> "error", result |-> "none",
                                           error |-> caught.message],
                             !.doneWrites = IF r.wrote THEN @ + 1 ELSE @,
                             !.faults = IF r.wrote /\ writeThrows
                                        THEN @ \cup {"done write"} ELSE @,
                             !.escaped = @ \/ r.threw]
    /\ pc' = "finally"
    /\ UNCHANGED <<harness, writableEnded, rt, status, errorMessage, resultRow,
                   keepaliveOn, runs, lastErr, returned, caught>>

\* the finally block without cleanup()
Finally_KeepsTimer ==
    /\ pc = "finally"
    /\ \E endThrows \in BOOLEAN, endMarks \in BOOLEAN :
          LET f == finalEnd(writableEnded, endThrows, endMarks)
          IN  /\ writableEnded' = f.writableEnded
              /\ hist' = [hist EXCEPT !.faults = IF f.called /\ endThrows
                                                 THEN @ \cup {"end"} ELSE @,
                                      !.escaped = @ \/ f.threw]
    /\ pc' = "done"
    /\ UNCHANGED <<harness, clientGone, rt, status, errorMessage, resultRow, runs,
                   lastErr, returned, caught, keepaliveOn>>

\* finally: cleanup() and the end of the stream
Finally ==
    /\ pc = "finally"
    /\ keepaliveOn' = FALSE
    /\ \E endThrows \in BOOLEAN, endMarks \in BOOLEAN :
          LET f == finalEnd(writableEnded, endThrows, endMarks)
          IN  /\ writableEnded' = f.writableEnded
              /\ hist' = [hist EXCEPT !.faults = IF f.called /\ endThrows
                                                 THEN @ \cup {"end"} ELSE @,
                                      !.escaped = @ \/ f.threw]
    /\ pc' = "done"
    /\ UNCHANGED <<harness, clientGone, rt, status, errorMessage, resultRow, runs,
                   lastErr, returned, caught>>

\* the handler is suspended in an await (the model call or the back-off sleep)
Suspended == pc = "model" /\ rt.pc \in {"await", "sleep"}

\* the keepalive interval fires, while the handler waits or after it is over
KeepaliveTick ==
    /\ keepaliveOn
    /\ Suspended \/ pc = "done"
    /\ \E writeThrows \in BOOLEAN :
          LET r == keepaliveWrite(clientGone, writableEnded, writeThrows)
          IN  /\ clientGone' = r.clientGone
              /\ hist' = [hist EXCEPT !.escaped = @ \/ r.threw]
    /\ UNCHANGED <<harness, writableEnded, rt, pc, status, errorMessage, resultRow,
                   keepaliveOn, runs, lastErr, returned, caught>>

\* the request's 'close' event: the client went away
ReqClose ==
    /\ Suspended \/ pc = "done"
    /\ ~clientGone
    /\ clientGone' = onClose(clientGone)
    /\ UNCHANGED <<harness, writableEnded, rt, jobVars>>

Next ==
    \/ BeginJob
    \/ StartStrategy
    \/ PrepareParts
    \/ CallModel
    \/ ModelResolves
    \/ ModelRejects
    \/ SleepOver
    \/ StrategyCatchStep
    \/ PersistResult
    \/ SendDone
    \/ CatchPersist
    \/ SendError
    \/ Finally
    \/ KeepaliveTick
    \/ ReqClose

Spec == Init /\ [][Next]_vars

\* the steps of the handler itself: each statement it reaches is executed, and
\* each remote call and each sleep it awaits comes back
JobStep ==
    \/ BeginJob
    \/ StartStrategy
    \/ PrepareParts
    \/ CallModel
    \/ ModelResolves
    \/ ModelRejects
    \/ SleepOver
    \/ StrategyCatchStep
    \/ PersistResult
    \/ SendDone
    \/ CatchPersist
    \/ SendError
    \/ Finally

\* Spec with every remote call returning
SpecLive == Spec /\ WF_vars(JobStep)

(***************************************************************************)
(* The client on its own: SpecClient runs handleAnalyze (src/App.tsx) from *)
(* the call of analyzeWithServer on, against a response stream made of at  *)
(* most MaxEvents wire events cut into chunks at any of the cut points,    *)
(* with a clock that advances TickMinutes at a time.                       *)
(***************************************************************************)
RECURSIVE WireOf(_)
WireOf(ids) ==
    IF ids = <<>> THEN <<>>
    ELSE WireLines[Head(ids)] \o <<"\n", "\n">> \o WireOf(Tail(ids))

RECURSIVE EventLists(_)
EventLists(n) ==
    IF n = 0 THEN {<<>>}
    ELSE LET shorter == EventLists(n - 1)
         IN  shorter \cup {Append(s, i) : s \in shorter, i \in 1..Len(WireLines)}

ElapsedMs == cli.elapsed * 60 * 1000

InFlight == cli.pc \in {"fetch", "read"}

TimerDue == cli.armed /\ ElapsedMs >= ABORT_TIMEOUT_MS

InitClient ==
    /\ ClsIdle
    /\ req = ReqIdle
    /\ ChanIdle
    /\ rt = RetryIdle
    /\ JobIdle
    /\ \E ids \in EventLists(MaxEvents) :
           cli = [ClientIdle EXCEPT !.pc = "fetch", !.sent = ids, !.wire = WireOf(ids),
                                    !.armed = TRUE, !.ui = "processing"]

\* } finally { clearTimeout(timeoutId) } once the call has returned or thrown
Settle(c, outcome, via) ==
    [c EXCEPT !.pc = "settled", !.outcome = outcome, !.via = via, !.armed = FALSE]

\* await fetch(...) resolves; a non-2xx response throws the body's error text,
\* or 'Analysis failed' when the body is not JSON
FetchResolves ==
    /\ cli.pc = "fetch"
    /\ ~TimerDue
    /\ \/ cli' = [cli EXCEPT !.pc = "read"]
       \/ \E message \in {ClientMessage.notFound, ClientMessage.analysisFailed} :
              cli' = Settle(cli, Rejected("Error", message), "http")
    /\ UNCHANGED <<clsVars, chanVars, rt, jobVars, req>>

\* the connection fails: fetch or reader.read() rejects
NetworkFails ==
    /\ InFlight
    /\ ~TimerDue
    /\ cli' = Settle(cli, Rejected("TypeError", ClientMessage.network), "network")
    /\ UNCHANGED <<clsVars, chanVars, rt, jobVars, req>>

\* the lengths a chunk of the undelivered text can have: up to the end of the
\* first line, ChunkSplit characters, or all of it
Cuts(wire) ==
    {n \in 1..Len(wire) :
        \/ n = Len(wire)
        \/ n = ChunkSplit
        \/ wire[n] = "\n" /\ \A k \in 1..(n - 1) : wire[k] # "\n"}

\* await reader.read() resolves with a chunk
ReadChunk ==
    /\ cli.pc = "read"
    /\ ~TimerDue
    /\ \E n \in Cuts(cli.wire) :
         \E r \in {OnChunk(cli.buffer, SubSeq(cli.wire, 1, n), cli.calls)} :
           LET c == [cli EXCEPT !.wire = SliceFrom(cli.wire, n), !.delivered = @ + n,
                                !.buffer = r.buffer, !.calls = r.calls]
           IN  cli' = IF r.outcome.kind = "none" THEN c ELSE Settle(c, r.outcome, "event")
    /\ UNCHANGED <<clsVars, chanVars, rt, jobVars, req>>

\* await reader.read() resolves with done: the server or a proxy closed the
\* stream, at its end or before
ReadDone ==
    /\ cli.pc = "read"
    /\ ~TimerDue
    /\ cli' = Settle(cli, Rejected("Error", ClientMessage.unexpectedEnd), "end")
    /\ UNCHANGED <<clsVars, chanVars, rt, jobVars, req>>

\* time passes while the call is in flight
Tick ==
    /\ InFlight
    /\ ~TimerDue
    /\ cli.elapsed + TickMinutes <= MaxMinutes
    /\ cli' = [cli EXCEPT !.elapsed = @ + TickMinutes]
    /\ UNCHANGED <<clsVars, chanVars, rt, jobVars, req>>

\* the abort timer fires: controller.abort() rejects the pending fetch or read
TimerFires ==
    /\ InFlight
    /\ TimerDue
    /\ cli' = [Settle(cli, Rejected("AbortError", ClientMessage.aborted), "abort")
                  EXCEPT !.aborted = TRUE]
    /\ UNCHANGED <<clsVars, chanVars, rt, jobVars, req>>

\* handleAnalyze after await analyzeWithServer: the success state, or the catch
HandleOutcome ==
    /\ cli.pc = "settled"
    /\ cli' = IF cli.outcome.kind = "resolved"
              THEN [cli EXCEPT !.pc = "shown", !.ui = "success"]
              ELSE [cli EXCEPT !.pc = "shown", !.ui = "error",
                               !.uiError =
                                   IF cli.outcome.name = "AbortError" THEN AppMessage.timedOut
                                   ELSE IF cli.outcome.message = <<>> THEN AppMessage.fallback
                                   ELSE cli.outcome.message]
    /\ UNCHANGED <<clsVars, chanVars, rt, jobVars, req>>

NextClient ==
    \/ FetchResolves
    \/ NetworkFails
    \/ ReadChunk
    \/ ReadDone
    \/ Tick
    \/ TimerFires
    \/ HandleOutcome

SpecClient == InitClient /\ [][NextClient]_vars

(***************************************************************************)
(* The image parts on their own: SpecImages gives analyzeRecording a       *)
(* stored image list of at most MaxStoredImages images whose kinds repeat  *)
(* one of the ImagePatterns, and builds the image parts of each strategy   *)
(* in turn.                                                                *)
(***************************************************************************)
ImagePatterns ==
    { <<"ok">>, <<"ok", "oversized">>, <<"oversized", "ok">>, <<"ok", "missing">>,
      <<"ok", "ok", "unreadable">> }

StoredImages(n, pattern) == [i \in 1..n |-> pattern[((i - 1) % Len(pattern)) + 1]]

InitImages ==
    /\ ClsIdle
    /\ ChanIdle
    /\ rt = RetryIdle
    /\ JobIdle
    /\ cli = ClientIdle
    /\ \E n \in 0..MaxStoredImages, pattern \in ImagePatterns :
           req = [ReqIdle EXCEPT !.pc = "strategy", !.imagePaths = StoredImages(n, pattern)]

\* one iteration of for (const strategy of strategies): the request of the
\* next strategy is built (and, for the loop to go on, fails)
BuildImages ==
    /\ req.pc = "strategy"
    /\ Len(req.built) < Len(strategies)
    /\ LET i == Len(req.built) + 1
           imgs == StrategyImages(req.imagePaths)[i]
       IN  req' = [req EXCEPT !.built = Append(@, [label |-> strategies[i],
                                                   given |-> Len(imgs),
                                                   images |-> Len(ImageParts(imgs))])]
    /\ UNCHANGED <<clsVars, chanVars, rt, jobVars, cli>>

NextImages == BuildImages

SpecImages == InitImages /\ [][NextImages]_vars

(***************************************************************************)
(* The audio part on its own: SpecAudio runs section 1 of runAnalysis for  *)
(* an audio file of one of the AudioSizes, with uploadAudioFile going      *)
(* through withSmartRetry and the File API free to fail at every call and *)
(* to answer PROCESSING, ACTIVE or FAILED.                                 *)
(***************************************************************************)
\* the texts of the errors of the upload; the too-large message without the
\* size and the details it quotes
UploadText ==
    [ stalled |->
       <<"F", "i", "l", "e", " ", "u", "p", "l", "o", "a", "d", " ", "s", "t", "a", "l", "l",
       "e", "d", ":", " ", "s", "t", "a", "t", "e", "=">>,
      after |->
       <<" ", "a", "f", "t", "e", "r", " ">>,
      polls |->
       <<" ", "p", "o", "l", "l", "s">>,
      tooLarge |->
       <<"A", "u", "d", "i", "o", " ", "u", "p", "l", "o", "a", "d", " ", "f", "a", "i", "l",
       "e", "d", ".", " ", "T", "h", "e", " ", "f", "i", "l", "e", " ", "i", "s", " ", "t", "o",
       "o", " ", "l", "a", "r", "g", "e", " ", "f", "o", "r", " ", "i", "n", "l", "i", "n", "e",
       " ", "f", "a", "l", "l", "b", "a", "c", "k", ".">> ]

\* String(n) for a natural number
RECURSIVE NumText(_)
NumText(n) == IF n < 10 THEN <<Digits[n + 1]>> ELSE Append(NumText(n \div 10), Digits[(n % 10) + 1])

FileStateText ==
    [ PROCESSING |-> <<"P", "R", "O", "C", "E", "S", "S", "I", "N", "G">>,
      ACTIVE |-> <<"A", "C", "T", "I", "V", "E">>,
      FAILED |-> <<"F", "A", "I", "L", "E", "D">> ]

\* the stalled error carrying the status of an expired file
StalledError_Expired(state, polls) ==
    RawError(404, Null,
             UploadText.stalled \o FileStateText[state] \o UploadText.after
                 \o NumText(polls) \o UploadText.polls)

\* new Error(`File upload stalled: state=${fileState.state} after ${polls} polls`)
StalledError(state, polls) ==
    RawError(Null, Null,
             UploadText.stalled \o FileStateText[state] \o UploadText.after
                 \o NumText(polls) \o UploadText.polls)

\* no audio file (Null), or its size in bytes
AudioSizes ==
    {Null, 0, INLINE_LIMIT_BYTES - 1, INLINE_LIMIT_BYTES, INLINE_LIMIT_BYTES + 1,
     INLINE_FALLBACK_BYTES + 1}

\* what ai.files.upload and ai.files.get are made to raise
UploadErrors ==
    { RawError(429, Null, ProviderMessage.quota),
      RawError(503, Null, ProviderMessage.overloaded),
      RawError(Null, Null, ProviderMessage.invalid) }

FileStates == {"PROCESSING", "ACTIVE", "FAILED"}

\* the File API leaves PROCESSING within MaxAnswerPolls polls, or stays in it
\* up to the last poll
Answers(polls) ==
    IF polls <= MaxAnswerPolls \/ polls = MAX_POLL_ATTEMPTS THEN FileStates
    ELSE {"PROCESSING"}

\* if (stat.size >= INLINE_LIMIT_BYTES): the boundary staged too
Staged_AtLimit(size) == size >= INLINE_LIMIT_BYTES

\* if (stat.size > INLINE_LIMIT_BYTES)
Staged(size) == size > INLINE_LIMIT_BYTES

InitAudio ==
    /\ ClsIdle
    /\ ChanIdle
    /\ rt = RetryIdle
    /\ JobIdle
    /\ cli = ClientIdle
    /\ \E size \in AudioSizes : req = [ReqIdle EXCEPT !.pc = "audio", !.size = size]

\* withSmartRetry's catch block after the attempt raised err, and, when it
\* throws, runAnalysis's catch (uploadErr)
UploadFailed(q, r0, err) ==
    \E r1 \in {RetryCatch(r0, err)} :
        req' = IF r1.pc = "sleep" THEN [q EXCEPT !.pc = "backoff", !.up = r1]
               ELSE IF r1.thrown.cls = "GeminiUserError"
                    THEN [q EXCEPT !.pc = "failed", !.up = r1, !.raised = r1.thrown]
               ELSE IF q.size <= INLINE_FALLBACK_BYTES
                    THEN [q EXCEPT !.pc = "built", !.up = r1,
                                   !.parts = Append(@, "inlineData")]
               ELSE [q EXCEPT !.pc = "failed", !.up = r1,
                              !.raised = RawError(Null, Null, UploadText.tooLarge)]

\* fn(attempt) of uploadAudioFile up to await ai.files.upload: the file is
\* read, which may throw
UploadAttempt(q, r) ==
    \/ req' = [q EXCEPT !.pc = "upload", !.up = RetryInvoke(r), !.uploads = @ + 1,
                        !.polls = 0, !.reports = 0, !.fileState = "none"]
    \/ \E err \in FsErrors : UploadFailed(q, RetryInvoke(r), err)

\* the poll loop from its test on: another poll, the stalled error, or the
\* file reference returned to runAnalysis, which pushes the fileData part
AfterFileState(q, state, polls) ==
    IF state = "PROCESSING" /\ polls < MAX_POLL_ATTEMPTS
    THEN req' = [q EXCEPT !.pc = "poll", !.fileState = state, !.polls = polls]
    ELSE IF state # "ACTIVE"
         THEN UploadFailed([q EXCEPT !.fileState = state, !.polls = polls], q.up,
                           StalledError(state, polls))
    ELSE req' = [q EXCEPT !.pc = "built", !.fileState = state, !.polls = polls,
                          !.up = RetryReturn(q.up, "fileRef"), !.staged = @ + 1,
                          !.parts = Append(@, "fileData")]

\* section 1 of runAnalysis up to its first await
PrepareAudio ==
    /\ req.pc = "audio"
    /\ IF req.size = Null THEN req' = [req EXCEPT !.pc = "built"]
       ELSE IF Staged(req.size)
            THEN UploadAttempt(req, withSmartRetry(MAX_RETRIES, RETRY_BASE_MS, "audio upload"))
       ELSE \/ req' = [req EXCEPT !.pc = "built", !.parts = Append(@, "inlineData")]
            \/ \E err \in FsErrors : req' = [req EXCEPT !.pc = "failed", !.raised = err]
    /\ UNCHANGED <<clsVars, chanVars, rt, jobVars, cli>>

\* await ai.files.upload resolves
UploadResolves ==
    /\ req.pc = "upload"
    /\ \E state \in Answers(0) : AfterFileState(req, state, 0)
    /\ UNCHANGED <<clsVars, chanVars, rt, jobVars, cli>>

\* await ai.files.upload or await ai.files.get rejects
UploadRejects ==
    /\ req.pc \in {"upload", "poll"}
    /\ \E err \in UploadErrors : UploadFailed(req, req.up, err)
    /\ UNCHANGED <<clsVars, chanVars, rt, jobVars, cli>>

\* a poll that emits no progress report
PollResolves_Silent ==
    /\ req.pc = "poll"
    /\ \E state \in Answers(req.polls + 1) : AfterFileState(req, state, req.polls + 1)
    /\ UNCHANGED <<clsVars, chanVars, rt, jobVars, cli>>

\* await sleep(POLL_INTERVAL_MS); await ai.files.get resolves; polls++; emit
PollResolves ==
    /\ req.pc = "poll"
    /\ \E state \in Answers(req.polls + 1) :
          AfterFileState([req EXCEPT !.reports = @ + 1], state, req.polls + 1)
    /\ UNCHANGED <<clsVars, chanVars, rt, jobVars, cli>>

\* the retry sleep is over: the next attempt uploads the file again
BackoffOver ==
    /\ req.pc = "backoff"
    /\ UploadAttempt(req, RetryWake(req.up))
    /\ UNCHANGED <<clsVars, chanVars, rt, jobVars, cli>>

NextAudio == PrepareAudio \/ UploadResolves \/ UploadRejects \/ PollResolves \/ BackoffOver

SpecAudio == InitAudio /\ [][NextAudio]_vars

(***************************************************************************)
(* trimMetadata and the metadata texts it is applied to.                   *)
(***************************************************************************)
\* the texts trimMetadata looks for and writes; rule and stamp are the line
\* under the title and the start of a timeline entry of the metadata texts
TrimText ==
    [ title |->
       <<"S", "P", "E", "A", "K", "E", "R", " ", "A", "C", "T", "I", "V", "I", "T", "Y",
       " ", "T", "I", "M", "E", "L", "I", "N", "E">>,
      evidence |->
       <<"\n", "\n", "S", "C", "R", "E", "E", "N", "S", "H", "O", "T", " ", "E", "V", "I",
       "D", "E", "N", "C", "E">>,
      entry |->
       <<"-", " ", "[">>,
      trimmedHead |->
       <<"-", " ", "[", ".", ".", ".", " ">>,
      trimmedTail |->
       <<" ", "e", "n", "t", "r", "i", "e", "s", " ", "t", "r", "i", "m", "m", "e", "d",
       " ", "f", "o", "r", " ", "b", "r", "e", "v", "i", "t", "y", " ", ".", ".", ".",
       "]">>,
      truncated |->
       <<"\n", "\n", "[", ".", ".", ".", " ", "m", "e", "t", "a", "d", "a", "t", "a", " ",
       "t", "r", "u", "n", "c", "a", "t", "e", "d", " ", "d", "u", "e", " ", "t", "o",
       " ", "l", "e", "n", "g", "t", "h", " ", ".", ".", ".", "]">>,
      rule |->
       <<"=", "=", "=", "=", "=", "=", "=", "=", "=", "=", "=", "=", "=", "=", "=", "=",
       "=", "=", "=", "=", "=", "=", "=", "=", "=">>,
      stamp |->
       <<"-", " ", "[", "0", "0", ":", "0", "1", "]", " ", "S", "p", "e", "a", "k", "e",
       "r", " ", "A">> ]

\* the limit runAnalysis passes to trimMetadata: 100_000
METADATA_LIMIT == 100000

\* entries.length > 200
TRIM_ENTRIES_OVER == 200

\* const half = 100
TRIM_HALF == 100

\* String.prototype.indexOf: the 0-based position of the first match, or -1
IndexOf(text, needle) ==
    LET hits == {i \in 1..(Len(text) - Len(needle) + 1) :
                    \A j \in 1..Len(needle) : text[i + j - 1] = needle[j]}
    IN  IF hits = {} THEN -1
        ELSE (CHOOSE i \in hits : \A k \in hits : i <= k) - 1

\* text.slice(from, to) for 0 <= from, to <= text.length
Slice(text, from, to) == SubSeq(text, from + 1, to)

RECURSIVE JoinRange(_, _, _)
\* lines.slice(lo - 1, hi).join('\n') for lo <= hi
JoinRange(lines, lo, hi) ==
    IF lo = hi THEN lines[lo]
    ELSE LET mid == (lo + hi) \div 2
         IN  JoinRange(lines, lo, mid) \o <<"\n">> \o JoinRange(lines, mid + 1, hi)

\* lines.join('\n')
JoinLines(lines) == IF lines = <<>> THEN <<>> ELSE JoinRange(lines, 1, Len(lines))

\* the timeline with its entries beyond the first and the last 100 replaced by
\* one line, or text itself when there are at most 200 entries
TrimTimeline(text, timelineStart, timelineEnd) ==
    LET before  == Slice(text, 0, timelineStart)
        after   == SliceFrom(text, timelineEnd)
        lines   == SplitLines(Slice(text, timelineStart, timelineEnd))
        header  == IF Len(lines) <= 3 THEN lines ELSE SubSeq(lines, 1, 3)
        entries == SelectSeq(SubSeq(lines, 4, Len(lines)),
                             LAMBDA l : StartsWith(l, TrimText.entry))
        trimmed == SubSeq(entries, 1, TRIM_HALF)
                     \o << TrimText.trimmedHead
                            \o NumText(Len(entries) - TRIM_ENTRIES_OVER)
                            \o TrimText.trimmedTail >>
                     \o SubSeq(entries, Len(entries) - TRIM_HALF + 1, Len(entries))
    IN  IF Len(entries) > TRIM_ENTRIES_OVER
        THEN before \o JoinLines(header \o trimmed) \o after
        ELSE text

\* trimMetadata(text, maxLen)
trimMetadata(text, maxLen) ==
    IF Len(text) <= maxLen THEN text
    ELSE LET timelineStart == IndexOf(text, TrimText.title)
             timelineEnd   == IndexOf(text, TrimText.evidence)
             result == IF timelineStart > -1 /\ timelineEnd > -1
                       THEN TrimTimeline(text, timelineStart, timelineEnd)
                       ELSE text
         IN  IF result # text /\ Len(result) <= maxLen THEN result
             ELSE Slice(text, 0, maxLen) \o TrimText.truncated

\* a metadata text: pre characters, then (timeline) the title line and the
\* rule line, entries timeline entries of pad more characters each,
\* then (evidence) the screenshot section, then post characters
MetadataText(d) ==
    LET entry == TrimText.stamp \o [i \in 1..d.pad |-> "z"]
    IN  [i \in 1..d.pre |-> "x"]
          \o (IF d.timeline
              THEN TrimText.title \o <<"\n">> \o TrimText.rule \o <<"\n">>
              ELSE <<>>)
          \o JoinLines([i \in 1..d.entries |-> entry])
          \o (IF d.evidence THEN TrimText.evidence \o <<"\n">> ELSE <<>>)
          \o [i \in 1..d.post |-> "y"]

MetadataShape(pre, timeline, entries, pad, evidence, post) ==
    [pre |-> pre, timeline |-> timeline, entries |-> entries, pad |-> pad,
     evidence |-> evidence, post |-> post]

\* the texts and limits trimMetadata is given: texts of a few thousand
\* characters against the limits SmallLimits, and texts of more than 100,000
\* characters against the limit of runAnalysis
TrimInputs ==
    { <<MetadataShape(pre, timeline, entries, pad, evidence, post), maxLen>> :
        pre \in {0, 40}, timeline \in BOOLEAN, entries \in EntryCounts, pad \in {1, 6},
        evidence \in BOOLEAN, post \in {0, 50}, maxLen \in SmallLimits }
    \cup { <<MetadataShape(METADATA_LIMIT + 1, FALSE, 0, 0, FALSE, 0), METADATA_LIMIT>>,
           <<MetadataShape(40, TRUE, LongTimeline, LongPad, TRUE, 50), METADATA_LIMIT>> }

(***************************************************************************)
(* The whole request: SpecAssemble runs the strategy loop of               *)
(* analyzeRecording with runAnalysis building the parts of each strategy   *)
(* (the audio section having given no part, an inline part or a file       *)
(* reference) and generateContent called through withSmartRetry.  An image *)
(* is its position in the stored list (id) and its kind; sent holds the    *)
(* parts of every generateContent call.                                    *)
(***************************************************************************)
AudioParts == {"none", "inlineData", "fileData"}

\* parts.push of section 1
AudioPart(audio) ==
    IF audio = "none" THEN <<>>
    ELSE <<[kind |-> audio, of |-> "audio", id |-> 0, imageCount |-> 0]>>

\* the text part pushed before the image parts
AssembleParts_TextFirst(audio, images) ==
    LET pushed == SelectSeq(sampleEvenly(SelectSeq(images, LAMBDA p : p.kind # "missing"),
                                         MAX_SCREENSHOTS),
                            LAMBDA p : p.kind = "ok")
    IN  AudioPart(audio)
          \o <<[kind |-> "text", of |-> "prompt", id |-> 0, imageCount |-> Len(pushed)]>>
          \o [i \in 1..Len(pushed) |->
                 [kind |-> "inlineData", of |-> "image", id |-> pushed[i].id,
                  imageCount |-> 0]]

\* imageCount counting every sampled image, pushed or skipped
AssembleParts_CountsSkipped(audio, images) ==
    LET imgs == sampleEvenly(SelectSeq(images, LAMBDA p : p.kind # "missing"),
                             MAX_SCREENSHOTS)
        pushed == SelectSeq(imgs, LAMBDA p : p.kind = "ok")
    IN  AudioPart(audio)
          \o [i \in 1..Len(pushed) |->
                 [kind |-> "inlineData", of |-> "image", id |-> pushed[i].id,
                  imageCount |-> 0]]
          \o <<[kind |-> "text", of |-> "prompt", id |-> 0, imageCount |-> Len(imgs)]>>

\* sections 1 to 3 of runAnalysis: the audio part, the image parts of the
\* sampled images that are read (imageCount++ after each push), the prompt
AssembleParts(audio, images) ==
    LET imgs == sampleEvenly(SelectSeq(images, LAMBDA p : p.kind # "missing"),
                             MAX_SCREENSHOTS)
        pushed == SelectSeq(imgs, LAMBDA p : p.kind = "ok")
    IN  AudioPart(audio)
          \o [i \in 1..Len(pushed) |->
                 [kind |-> "inlineData", of |-> "image", id |-> pushed[i].id,
                  imageCount |-> 0]]
          \o <<[kind |-> "text", of |-> "prompt", id |-> 0, imageCount |-> Len(pushed)]>>

\* what generateContent is made to raise, or the empty response it gives
AssembleErrors ==
    { RawError(429, Null, ProviderMessage.quota),
      RawError(Null, Null, ProviderMessage.overflow),
      EmptyResponseError }

InitAssemble ==
    /\ ClsIdle
    /\ ChanIdle
    /\ rt = RetryIdle
    /\ JobIdle
    /\ cli = ClientIdle
    /\ \E n \in 0..MaxStoredImages, pattern \in ImagePatterns, audio \in AudioParts :
          req = [ReqIdle EXCEPT !.pc = "strategy", !.audio = audio,
                    !.imagePaths = [i \in 1..n |->
                                       [id |-> i, kind |-> StoredImages(n, pattern)[i]]]]

\* the next strategy: runAnalysis up to the first await ai.models.generateContent
AssembleRequest ==
    /\ req.pc = "strategy"
    /\ \E parts \in {AssembleParts(req.audio,
                                    StrategyImages(req.imagePaths)[req.strat + 1])} :
          req' = [req EXCEPT !.pc = "model", !.strat = @ + 1, !.parts = parts,
                     !.up = RetryInvoke(withSmartRetry(MAX_RETRIES, RETRY_BASE_MS,
                                                       "generateContent")),
                     !.sent = Append(@, parts)]
    /\ UNCHANGED <<clsVars, chanVars, rt, jobVars, cli>>

\* generateContent resolves with a text
CallResolves ==
    /\ req.pc = "model"
    /\ req' = [req EXCEPT !.pc = "done", !.up = RetryReturn(@, "docA")]
    /\ UNCHANGED <<clsVars, chanVars, rt, jobVars, cli>>

\* generateContent rejects or gives no text: withSmartRetry's catch block and,
\* when it throws, the catch block of the strategy loop
CallRejects ==
    /\ req.pc = "model"
    /\ \E err \in AssembleErrors :
       \E r1 \in {RetryCatch(req.up, err)} :
          IF r1.pc = "sleep" THEN req' = [req EXCEPT !.pc = "backoff", !.up = r1]
          ELSE \E c \in {StrategyCatch(r1.thrown, req.strat)} :
                  req' = IF c.do = "next" THEN [req EXCEPT !.pc = "strategy", !.up = r1]
                         ELSE [req EXCEPT !.pc = "failed", !.up = r1, !.raised = c.error]
    /\ UNCHANGED <<clsVars, chanVars, rt, jobVars, cli>>

\* the retry sleep is over: generateContent is called again with the same parts
CallRetry ==
    /\ req.pc = "backoff"
    /\ req' = [req EXCEPT !.pc = "model", !.up = RetryInvoke(RetryWake(@)),
                          !.sent = Append(@, req.parts)]
    /\ UNCHANGED <<clsVars, chanVars, rt, jobVars, cli>>

NextAssemble == AssembleRequest \/ CallResolves \/ CallRejects \/ CallRetry

SpecAssemble == InitAssemble /\ [][NextAssemble]_vars

(***************************************************************************)
(* trimMetadata applied to one of the TrimInputs; of the text and of the   *)
(* result the state keeps the lengths, and the last characters of the      *)
(* result.                                                                 *)
(***************************************************************************)
InitTrim ==
    /\ ClsIdle
    /\ ChanIdle
    /\ rt = RetryIdle
    /\ JobIdle
    /\ cli = ClientIdle
    /\ \E input \in TrimInputs :
          req = [ReqIdle EXCEPT !.pc = "trim", !.meta = input[1], !.maxLen = input[2]]

Trim ==
    /\ req.pc = "trim"
    /\ \E text \in {MetadataText(req.meta)} :
       \E result \in {trimMetadata(text, req.maxLen)} :
          req' = [req EXCEPT !.pc = "trimmed", !.metaLen = Len(text),
                     !.trimmedLen = Len(result),
                     !.trimmedEnd = IF Len(result) <= Len(TrimText.truncated) THEN result
                                    ELSE SliceFrom(result,
                                                   Len(result) - Len(TrimText.truncated))]
    /\ UNCHANGED <<clsVars, chanVars, rt, jobVars, cli>>

NextTrim == Trim

SpecTrim == InitTrim /\ [][NextTrim]_vars

(***************************************************************************)
(* sampleEvenly, server and client copy, applied to a list of up to        *)
(* MaxSampleLen elements (the list 1, 2, ..., n) and a count up to         *)
(* MaxSampleLen.                                                           *)
(***************************************************************************)
InitSample ==
    /\ ClsIdle
    /\ ChanIdle
    /\ rt = RetryIdle
    /\ JobIdle
    /\ cli = ClientIdle
    /\ \E n \in 0..MaxSampleLen, count \in 0..MaxSampleLen :
          req = [ReqIdle EXCEPT !.pc = "sample", !.arr = [k \in 1..n |-> k],
                                !.count = count]

Sample ==
    /\ req.pc = "sample"
    /\ req' = [req EXCEPT !.pc = "sampled",
                          !.result = sampleEvenly(req.arr, req.count),
                          !.clientResult = sampleEvenlyClient(req.arr, req.count)]
    /\ UNCHANGED <<clsVars, chanVars, rt, jobVars, cli>>

NextSample == Sample

SpecSample == InitSample /\ [][NextSample]_vars

(***************************************************************************)
(* Properties of the classifier (checked under SpecClassify).              *)
(***************************************************************************)
Classified == clsOut # NoClassification

\* C10: every raw error whose message contains "429" and the word "quota"
\* in any letter case, whatever its status fields, is classified
\* QUOTA_EXHAUSTED, not retryable, without a wait hint.
C10_QuotaExhausted ==
    ( /\ Classified
      /\ Includes(clsErr.message, Keyword.n429)
      /\ Includes(ToLower(clsErr.message), Keyword.quota) )
    => /\ clsOut.type = "QUOTA_EXHAUSTED"
       /\ clsOut.retryable = FALSE
       /\ clsOut.waitMs = Null

\* a classified error with "429" and a capitalised "Quota" in the message and
\* a status field naming another row
C10_Witness ==
    /\ Classified
    /\ Includes(clsErr.message, Keyword.n429)
    /\ ~Includes(clsErr.message, Keyword.quota)
    /\ Includes(ToLower(clsErr.message), Keyword.quota)
    /\ clsErr.status = 403
    /\ clsOut.type = "QUOTA_EXHAUSTED"

\* C22 as stated: an error with status 429 whose message contains none of
\* "quota", "daily", "exhausted" in any letter case is classified RATE_LIMITED,
\* retryable, with the fixed wait of 65 s; an error is classified
\* QUOTA_EXHAUSTED only when one of those three words is present.
C22_RateLimitedUnlessThreeWords ==
    LET lower == ToLower(clsErr.message)
        worded == \/ Includes(lower, Keyword.quota)
                  \/ Includes(lower, Keyword.daily)
                  \/ Includes(lower, Keyword.exhausted)
    IN  Classified
        => /\ (StatusOf(clsErr) = 429 /\ ~worded)
              => /\ clsOut.type = "RATE_LIMITED"
                 /\ clsOut.retryable = TRUE
                 /\ clsOut.waitMs = 65000
           /\ clsOut.type = "QUOTA_EXHAUSTED" => worded

\* C22: an error with status 429 whose message contains none of "quota",
\* "daily", "per day", "exhausted" in any letter case is classified
\* RATE_LIMITED, retryable, with the fixed wait of 65 s; an error is classified
\* QUOTA_EXHAUSTED only when one of those four wordings is present.
C22_RateLimitedUnlessQuotaWording ==
    LET lower == ToLower(clsErr.message)
        worded == \/ Includes(lower, Keyword.quota)
                  \/ Includes(lower, Keyword.daily)
                  \/ Includes(lower, Keyword.per_day)
                  \/ Includes(lower, Keyword.exhausted)
    IN  Classified
        => /\ (StatusOf(clsErr) = 429 /\ ~worded)
              => /\ clsOut.type = "RATE_LIMITED"
                 /\ clsOut.retryable = TRUE
                 /\ clsOut.waitMs = 65000
           /\ clsOut.type = "QUOTA_EXHAUSTED" => worded

\* a 429 error that only says "rate limit", and is rate limited
C22_Witness ==
    /\ Classified
    /\ clsErr.status = 429
    /\ clsErr.message = Keyword.rate_limit
    /\ clsOut.type = "RATE_LIMITED"
    /\ clsOut.waitMs = RATE_LIMIT_WAIT_MS

\* the classifications of the row of a status code
RowTypes(code) ==
    CASE code = 429 -> {"QUOTA_EXHAUSTED", "RATE_LIMITED"}
      [] code = 403 -> {"KEY_LEAKED", "AUTH_ERROR"}
      [] code = 400 -> {"BILLING_REQUIRED", "INVALID_REQUEST"}
      [] code = 404 -> {"FILE_EXPIRED"}
      [] code = 500 -> {"SERVER_ERROR"}
      [] code = 503 -> {"SERVICE_UNAVAILABLE"}
      [] code = 504 -> {"DEADLINE_EXCEEDED"}
      [] OTHER -> {}

\* C23: the status the classifier uses is the status field when there is
\* one, otherwise the three digits of a bracketed token of the message,
\* otherwise none; an error whose status field is the code of a row of the
\* table is classified by that row, whatever its message; and an error with no
\* status and no keyword of the table in its message is classified UNKNOWN,
\* retryable, with no wait hint.
C23_StatusRowFirst ==
    LET raw == RawText(clsErr)
        lower == ToLower(raw)
    IN  Classified
        => /\ clsErr.status # Null => StatusOf(clsErr) = clsErr.status
           /\ (clsErr.status = Null /\ clsErr.statusCode = Null)
                 => StatusOf(clsErr) = extractHttpStatus(raw)
           /\ (clsErr.status # Null /\ RowTypes(clsErr.status) # {})
                 => clsOut.type \in RowTypes(clsErr.status)
           /\ (StatusOf(clsErr) = Null
                 /\ \A k \in DOMAIN Keyword : ~Includes(lower, Keyword[k]))
                 => /\ clsOut.type = "UNKNOWN"
                    /\ clsOut.retryable = TRUE
                    /\ clsOut.waitMs = Null

\* C11: every raw error whose status field is 503, whatever its message, is
\* classified SERVICE_UNAVAILABLE, retryable, with the fixed wait of 10 s,
\* which differs from the default base of the exponential back-off.
C11_Status503Unavailable ==
    (Classified /\ clsErr.status = 503)
    => /\ clsOut.type = "SERVICE_UNAVAILABLE"
       /\ clsOut.retryable = TRUE
       /\ clsOut.waitMs = SERVICE_UNAVAILABLE_WAIT_MS
       /\ clsOut.waitMs # RETRY_BASE_MS

(***************************************************************************)
(* Properties of the progress channel (checked under SpecChannel).         *)
(***************************************************************************)
\* C3: send and the keepalive write never raise, whatever the transport
\* does; and once clientGone is set (by a failed write or by the close
\* notification) or the stream is ended, no later send or keepalive call
\* makes a transport write.
C3_SendNeverRaisesNoWriteAfterGone ==
    /\ [](chanRaised \notin {"send", "keepalive"})
    /\ [][(clientGone \/ writableEnded) => writeCalls' = writeCalls]_vars

\* the peer is gone after a write was attempted, and further operations have
\* been called since without anything raised
C3_Witness ==
    /\ clientGone
    /\ writeCalls = 1
    /\ chanOps >= 3
    /\ chanRaised = "none"

\* C4: finalEnd never raises, does not call res.end() on a stream already
\* ended, and once the stream is ended no further call makes a transport
\* operation.
C4_FinalEndIdempotent ==
    /\ [](chanRaised # "finalEnd")
    /\ [][writableEnded => (endCalls' = endCalls /\ writeCalls' = writeCalls)]_vars

\* the stream was ended by one res.end() call and operations were called after
C4_Witness ==
    /\ writableEnded
    /\ endCalls = 1
    /\ chanOps >= 3
    /\ chanRaised = "none"

(***************************************************************************)
(* Properties of the retry engine (checked under SpecRetry).               *)
(***************************************************************************)
NonRetryableKinds ==
    {"QUOTA_EXHAUSTED", "AUTH_ERROR", "KEY_LEAKED", "BILLING_REQUIRED",
     "INVALID_REQUEST", "FILE_EXPIRED", "DEADLINE_EXCEEDED"}

RetryableKinds ==
    {"RATE_LIMITED", "SERVER_ERROR", "SERVICE_UNAVAILABLE", "CONTEXT_OVERFLOW", "UNKNOWN"}

\* the wait a classification fixes, Null when it leaves the wait to the back-off
FixedWait(kind) ==
    IF kind = "RATE_LIMITED" THEN 65000
    ELSE IF kind = "SERVICE_UNAVAILABLE" THEN 10000
    ELSE Null

\* the error withSmartRetry raised is the user-facing form of its last failure
ThrownIsLastClassified ==
    /\ rt.thrown.cls = "GeminiUserError"
    /\ rt.thrown.message = classifyGeminiError(rt.lastErr).userMessage
    /\ rt.thrown.type = rt.fails[Len(rt.fails)]

\* C5: when the operation's (first) failure is classified non-retryable,
\* withSmartRetry has called the operation exactly once, has made no wait
\* and no progress report, and has raised a GeminiUserError carrying the
\* classification's message and kind.
C5_NonRetryableRaisedAtOnce ==
    (Len(rt.fails) >= 1 /\ rt.fails[1] \in NonRetryableKinds)
    => /\ rt.pc = "threw"
       /\ rt.calls = <<1>>
       /\ rt.waits = <<>>
       /\ rt.reports = <<>>
       /\ Len(rt.fails) = 1
       /\ ThrownIsLastClassified

\* a leaked-key failure on the first attempt of three
C5_Witness ==
    /\ rt.maxAttempts = 3
    /\ rt.pc = "threw"
    /\ rt.fails = <<"KEY_LEAKED">>
    /\ rt.thrown.message = UserMessage.KEY_LEAKED

\* C6: with maxAttempts = 3 and a retryable failure on every attempt, once
\* withSmartRetry has raised it has called the operation exactly three times
\* (attempts 1, 2, 3), has waited exactly twice, each wait being the
\* classification's fixed wait or else baseMs * 2^(k-1) (increasing), and
\* the error raised carries the last failure's classification.
C6_ThreeAttemptsThenRaise ==
    ( /\ rt.maxAttempts = 3
      /\ rt.pc = "threw"
      /\ \A k \in 1..Len(rt.fails) : rt.fails[k] \in RetryableKinds )
    => /\ rt.calls = <<1, 2, 3>>
       /\ Len(rt.fails) = 3
       /\ Len(rt.waits) = 2
       /\ Len(rt.reports) = 2
       /\ \A k \in 1..2 :
            rt.waits[k] = IF FixedWait(rt.fails[k]) # Null THEN FixedWait(rt.fails[k])
                          ELSE IF k = 1 THEN rt.baseMs ELSE 2 * rt.baseMs
       /\ (FixedWait(rt.fails[1]) = Null /\ FixedWait(rt.fails[2]) = Null)
            => rt.waits[1] < rt.waits[2]
       /\ ThrownIsLastClassified

\* three retryable failures of different kinds, the waits 10 s then 6 s
C6_Witness ==
    /\ rt.maxAttempts = 3
    /\ rt.pc = "threw"
    /\ rt.fails = <<"SERVICE_UNAVAILABLE", "SERVER_ERROR", "UNKNOWN">>
    /\ rt.waits = <<10000, 6000>>
    /\ rt.thrown.message = ProviderMessage.network

\* C19: after the k-th failed retryable attempt with attempts remaining,
\* withSmartRetry waits exactly the classification's wait hint when it has one
\* (65 s for RATE_LIMITED, 10 s for SERVICE_UNAVAILABLE) and otherwise
\* baseMs * 2^(k-1) (3 s then 6 s with the defaults); it has reported that wait
\* through the callback when it sleeps, and it never waits after the final
\* attempt.
C19_WaitBeforeRetry ==
    /\ \A k \in 1..Len(rt.waits) :
          /\ k < rt.maxAttempts
          /\ rt.fails[k] \in RetryableKinds
          /\ rt.waits[k] = CASE rt.fails[k] = "RATE_LIMITED" -> 65000
                              [] rt.fails[k] = "SERVICE_UNAVAILABLE" -> 10000
                              [] OTHER -> rt.baseMs * Pow2(k - 1)
          /\ (rt.baseMs = RETRY_BASE_MS /\ FixedWait(rt.fails[k]) = Null /\ k <= 2)
                => rt.waits[k] = IF k = 1 THEN 3000 ELSE 6000
          /\ k <= Len(rt.reports) /\ rt.reports[k].waitSec * 1000 = rt.waits[k]
    /\ rt.pc = "sleep" => Len(rt.waits) = rt.attempt /\ Len(rt.reports) = rt.attempt
    /\ (rt.pc = "threw" /\ rt.fails # <<>>) => Len(rt.waits) = Len(rt.fails) - 1

\* a rate-limited first attempt, an unclassified second one and a third failure:
\* 65 s, then 6 s, and no wait after the third
C19_Witness ==
    /\ rt.baseMs = RETRY_BASE_MS
    /\ rt.pc = "threw"
    /\ rt.fails = <<"RATE_LIMITED", "UNKNOWN", "SERVER_ERROR">>
    /\ rt.waits = <<65000, 6000>>

\* C20: every retry and also the final failure of withSmartRetry are reported
\* through the progress callback: the callback has been invoked once for each
\* failed attempt, the last failed attempt before the error is raised included.
C20_EveryFailureReported == Len(rt.reports) = Len(rt.fails)

\* C20 as the code has it: the callback is invoked once for each failed attempt
\* that is followed by a wait and another attempt, before that wait; the final
\* failure (the last failed attempt, or a non-retryable one) is not reported
\* through the callback but raised.
C20_RetriesReportedFinalRaised ==
    /\ Len(rt.reports) = Len(rt.waits)
    /\ \A k \in 1..Len(rt.reports) :
          rt.reports[k].nextAttempt = k + 1 /\ rt.fails[k] \in RetryableKinds
    /\ rt.pc = "sleep" => Len(rt.reports) = Len(rt.fails)
    /\ (rt.pc = "threw" /\ rt.fails # <<>>)
          => /\ Len(rt.reports) = Len(rt.fails) - 1
             /\ rt.thrown.cls = "GeminiUserError"

\* a retried first failure and a non-retryable second one: one report
C20_Witness ==
    /\ rt.pc = "threw"
    /\ Len(rt.fails) = 2 /\ rt.fails[2] \in NonRetryableKinds
    /\ Len(rt.reports) = 1

(***************************************************************************)
(* Properties of one analysis job (checked under Spec).                    *)
(***************************************************************************)
\* C1: once the handler has persisted the job's status as 'completed', no
\* failure of the progress transport (a throwing write of the done event, a
\* keepalive write, a throwing end()) makes the handler set the status to
\* 'error': the persisted status stays 'completed'.
C1_CompletedNeverReverted == hist.savedCompleted => status = "completed"

C1_Witness ==
    /\ hist.savedCompleted
    /\ hist.faults = {"done write", "end"}
    /\ pc = "done"
    /\ status = "completed"

\* C2: each call of send with a done event finds the terminal state already
\* persisted by an earlier statement: status 'completed' and the result row
\* holding the event's result on the success path; status 'error' with the
\* event's error message on the failure path, unless the write of the error
\* status itself failed.
C2_PersistedBeforeDone ==
    [][ hist'.doneSends > hist.doneSends =>
          IF hist'.doneSent.kind = "result"
          THEN status = "completed" /\ resultRow = hist'.doneSent.result
          ELSE \/ status = "error" /\ errorMessage = hist'.doneSent.error
               \/ hist.errWriteFailed ]_vars

C2_Witness ==
    /\ hist.doneWrites = 1
    /\ hist.doneSent.kind = "error"
    /\ status = "error"
    /\ errorMessage = hist.doneSent.error
    /\ ~hist.errWriteFailed

CapacityTypes == {"CONTEXT_OVERFLOW", "SERVER_ERROR"}

FullFailedOnCapacity ==
    /\ Len(runs) >= 1
    /\ runs[1].label = "Full"
    /\ runs[1].outcome = "threw"
    /\ runs[1].error.type \in CapacityTypes

ReducedReturned(i) ==
    /\ runs[i].label = "Reduced images (50%)"
    /\ runs[i].outcome = "returned"

\* C7: when the 'Full' strategy has failed with a CONTEXT_OVERFLOW or
\* SERVER_ERROR error and the 'Reduced images (50%)' strategy has returned,
\* analyzeRecording returns the reduced run's output, exactly two strategies
\* were started and none of them is 'Audio only'.
C7_FallbackToReduced ==
    \A i \in DOMAIN runs :
        (FullFailedOnCapacity /\ ReducedReturned(i))
        => /\ Len(runs) = 2
           /\ returned = runs[i].output
           /\ pc \in {"persist", "sendDone", "catch", "sendError", "finally", "done"}
           /\ \A j \in DOMAIN runs : runs[j].label # "Audio only"

C7_Witness ==
    /\ FullFailedOnCapacity
    /\ runs[1].error.type = "SERVER_ERROR"
    /\ Len(runs) = 2
    /\ ReducedReturned(2)
    /\ returned = "docB"

FirstFailedNotCapacity ==
    /\ Len(runs) >= 1
    /\ runs[1].outcome = "threw"
    /\ ~isCapacityError(runs[1].error)

FirstCallRaisedLeaked ==
    /\ Len(runs) = 1
    /\ Len(rt.fails) = 1
    /\ rt.lastErr.status = 403
    /\ Includes(ToLower(rt.lastErr.message), Keyword.leaked)

AfterCatch == pc \in {"sendError", "finally", "done"}

AfterSendError == pc \in {"finally", "done"}

LeakedJobShape ==
    /\ hist.modelCalls = 1
    /\ Len(runs) = 1
    /\ rt.calls = <<1>>
    /\ rt.waits = <<>>
    /\ pc \in {"stratCatch", "catch", "sendError", "finally", "done"}
    /\ hist.doneSends <= 1
    /\ AfterSendError =>
          hist.doneSent = [kind |-> "error", result |-> "none",
                           error |-> UserMessage.KEY_LEAKED]

C12_ExactlyOneDoneEvent ==
    /\ hist.doneSends <= 1
    /\ pc = "done" => hist.doneSends = 1
    /\ ~hist.stageAfterDone
    /\ hist.doneSends = 1 => pc \in {"finally", "done"}

C12_Witness ==
    /\ pc = "done"
    /\ hist.stageSends
    /\ hist.doneSends = 1
    /\ hist.doneSent.kind = "result"
    /\ Len(runs) = 3


\* C13: analyzeWithServer arms one abort timer of 25 minutes over the whole
\* operation: while the call is in flight the timer is armed, the signal is not
\* aborted at 10 minutes nor at any time before 25 minutes have elapsed, and the
\* call is not in flight any longer once 25 minutes have passed.
C13_AbortTimer25Minutes ==
    /\ InFlight => cli.armed
    /\ cli.aborted => ElapsedMs >= DOCUMENTED_TIMEOUT_MS
    /\ InFlight => ElapsedMs <= DOCUMENTED_TIMEOUT_MS


\* what each of the WireLines is: a progress event, a done event carrying a
\* result, an error or neither, or a line to skip
WireKind == <<"progress", "progress", "progress", "result", "error", "empty", "skip", "skip">>

WireResult == <<"a", "\n", "b">>

WireErrorText == <<"b", "o", "o", "m">>

\* the onProgress call each progress line stands for
WireCall ==
    << [stage |-> JString(<<"A">>), detail |-> JUndefined],
       [stage |-> JString(<<"B">>), detail |-> JString(<<"x">>)],
       [stage |-> JString(<<>>), detail |-> JString(<<"y">>)] >>

\* the number of leading events of ids whose line has wholly arrived, feed
\* included, once n characters of the stream have been delivered
RECURSIVE EventsArrived(_, _)
EventsArrived(ids, n) ==
    IF ids = <<>> \/ n < Len(WireLines[Head(ids)]) + 1 THEN 0
    ELSE 1 + EventsArrived(Tail(ids), n - (Len(WireLines[Head(ids)]) + 2))

Arrived == SubSeq(cli.sent, 1, EventsArrived(cli.sent, cli.delivered))

DoneKinds == {"result", "error", "empty"}

\* index of the first done event of ids, 0 when there is none
FirstDone(ids) ==
    IF \E i \in 1..Len(ids) : WireKind[ids[i]] \in DoneKinds
    THEN CHOOSE i \in 1..Len(ids) :
             /\ WireKind[ids[i]] \in DoneKinds
             /\ \A j \in 1..(i - 1) : WireKind[ids[j]] \notin DoneKinds
    ELSE 0

\* the events of ids that come before its first done event
BeforeDone(ids) == IF FirstDone(ids) = 0 THEN ids ELSE SubSeq(ids, 1, FirstDone(ids) - 1)

RECURSIVE ProgressCalls(_)
ProgressCalls(ids) ==
    IF ids = <<>> THEN <<>>
    ELSE IF WireKind[Head(ids)] = "progress"
         THEN <<WireCall[Head(ids)]>> \o ProgressCalls(Tail(ids))
    ELSE ProgressCalls(Tail(ids))

\* C14: analyzeWithServer resolves only on a done event that carries a result,
\* returning that result; a done event carrying an error rejects with the
\* server's error message; a done event with neither, or a stream that ends
\* without any done event, rejects with a 'stream ended' failure; the first done
\* event settles the call and no event after it is processed.
C14_SettledByFirstDone ==
    LET d == FirstDone(Arrived)
        kind == IF d = 0 THEN "none" ELSE WireKind[Arrived[d]]
    IN  /\ cli.outcome.kind = "resolved" => kind = "result"
        /\ kind = "result" => cli.outcome = Resolved(JString(WireResult))
        /\ kind = "error" => cli.outcome = Rejected("Error", WireErrorText)
        /\ kind = "empty" => cli.outcome = Rejected("Error", ClientMessage.noResult)
        /\ d > 0 <=> cli.via = "event"
        /\ cli.via = "end" => cli.outcome = Rejected("Error", ClientMessage.unexpectedEnd)
        /\ Len(cli.calls) <= Len(ProgressCalls(BeforeDone(cli.sent)))

\* a progress event, the done event with the result and one more progress
\* event arrive in a single chunk: the call resolves with the result after one
\* onProgress call
C14_Witness ==
    /\ cli.outcome = Resolved(JString(WireResult))
    /\ Len(cli.sent) = 3 /\ WireKind[cli.sent[1]] = "progress"
    /\ WireKind[cli.sent[3]] = "progress"
    /\ cli.delivered = Len(WireOf(cli.sent))
    /\ Len(cli.calls) = 1


\* ids without the comment lines and the lines of malformed JSON
Strip(ids) == SelectSeq(ids, LAMBDA i : WireKind[i] # "skip")

\* C15: onProgress is invoked exactly once per well-formed non-terminal data
\* event, in arrival order, and never for the done event; comment lines, empty
\* lines and data lines with malformed JSON are skipped: the calls made are
\* those of the stream without them.
C15_ProgressPerEvent ==
    /\ cli.calls = ProgressCalls(BeforeDone(Arrived))
    /\ cli.calls = ProgressCalls(BeforeDone(Strip(Arrived)))
    /\ \A i \in 1..Len(cli.calls) : \E w \in 1..Len(WireCall) : cli.calls[i] = WireCall[w]

\* two progress events arrive around a skipped line and the stream ends: two
\* calls, in arrival order
C15_Witness ==
    /\ cli.via = "end"
    /\ Len(cli.sent) = 3 /\ WireKind[cli.sent[2]] = "skip"
    /\ cli.delivered = Len(WireOf(cli.sent))
    /\ cli.calls = <<WireCall[2], WireCall[1]>>


\* C16: on any analysis failure after the meeting was created (the client's
\* timeout abort or any server or stream error) the client has called
\* updateMeetingStatus(meetingId, 'error', message) by the time the error is shown.
C16_FailureMarksMeetingError ==
    (cli.pc = "shown" /\ cli.outcome.kind = "rejected")
    => \E i \in 1..Len(cli.statusCalls) :
           cli.statusCalls[i].status = "error" /\ cli.statusCalls[i].message = cli.uiError


\* C17: for any stored image list, the number of image parts in the request of
\* 'Reduced images (50%)' is at most ceil(m / 2), where m is the number of image
\* parts in the request of 'Full' (20 when Full sends 40).
C17_ReducedSendsHalf ==
    Len(req.built) >= 2
    => /\ req.built[2].images <= CeilHalf(req.built[1].images)
       /\ req.built[1].images = 40 => req.built[2].images = 20


\* C18: an existing audio file of at most 15 MB (boundary included) is sent as
\* exactly one inline part without any staging; one larger than 15 MB whose
\* staging reaches ACTIVE is sent as exactly one staged-file reference part and
\* never as inline bytes.
C18_InlineOrStaged ==
    /\ (req.size # Null /\ req.size <= INLINE_LIMIT_BYTES)
       => /\ req.uploads = 0
          /\ req.pc = "built" => req.parts = <<"inlineData">>
    /\ req.size > INLINE_LIMIT_BYTES
       => /\ \A i \in 1..Len(req.parts) : req.parts[i] # "inlineData"
          /\ req.fileState = "ACTIVE" <=> req.pc = "built"
          /\ req.pc = "built" => req.parts = <<"fileData">>

\* a file one byte over the limit is ACTIVE after two PROCESSING polls
C18_Witness ==
    /\ req.size = INLINE_LIMIT_BYTES + 1
    /\ req.pc = "built" /\ req.polls = 2 /\ req.uploads = 1
    /\ req.parts = <<"fileData">>


(***************************************************************************)
(* More properties of one analysis job (checked under Spec).               *)
(***************************************************************************)
\* C21: strategies are tried in the fixed order Full, Reduced images (50%),
\* Audio only: a strategy is started only after the previous one failed with a
\* capacity-shaped error, no strategy is run twice or revisited, and when all
\* three have failed the error raised is the classified error of the third
\* failure.
C21_FixedStrategyOrder ==
    /\ Len(runs) <= 3
    /\ \A i \in DOMAIN runs :
          runs[i].label = <<"Full", "Reduced images (50%)", "Audio only">>[i]
    /\ \A i \in 2..Len(runs) :
          runs[i - 1].outcome = "threw" /\ isCapacityError(runs[i - 1].error)
    /\ (Len(runs) = 3 /\ runs[3].outcome = "threw")
          => /\ pc \in {"catch", "sendError", "finally", "done"}
             /\ IF runs[3].error.cls = "GeminiUserError"
                THEN hist.raised = runs[3].error
                ELSE LET classified == classifyGeminiError(runs[3].error)
                     IN  hist.raised =
                             GeminiUserError(classified.userMessage, classified.type)

\* all three strategies fail on the context limit; the overflow error is raised
C21_Witness ==
    /\ Len(runs) = 3
    /\ \A i \in 1..3 : runs[i].outcome = "threw" /\ runs[i].error.type = "CONTEXT_OVERFLOW"
    /\ hist.raised.type = "CONTEXT_OVERFLOW"
    /\ hist.raised.message = UserMessage.CONTEXT_OVERFLOW


\* C24: within one upload attempt at most 120 polls are made, each answered
\* poll is followed by one progress report, a poll is under way only while
\* the last state seen is PROCESSING, the file reference is handed over only
\* when the last state seen is ACTIVE, and an upload that answers ACTIVE at
\* once is followed by no poll.
C24_PollLoop ==
    /\ [](/\ req.polls <= MAX_POLL_ATTEMPTS
          /\ req.reports = req.polls
          /\ req.pc = "poll"
                => req.fileState = "PROCESSING" /\ req.polls < MAX_POLL_ATTEMPTS
          /\ (\E i \in DOMAIN req.parts : req.parts[i] = "fileData")
                => req.fileState = "ACTIVE" /\ req.pc = "built")
    /\ [][(req.pc = "upload" /\ req'.fileState = "ACTIVE")
            => req'.pc = "built" /\ req'.polls = 0 /\ req'.reports = 0]_vars

\* the file became ACTIVE at the second poll, after two reports
C24_Witness ==
    /\ req.pc = "built"
    /\ req.parts = <<"fileData">>
    /\ req.fileState = "ACTIVE"
    /\ req.polls = 2
    /\ req.reports = 2


\* a step in which an upload attempt ends with the file not ACTIVE
Stalled ==
    /\ req.pc \in {"upload", "poll"}
    /\ req'.pc # "poll"
    /\ \/ req'.fileState = "FAILED"
       \/ req'.fileState = "PROCESSING" /\ req'.polls = MAX_POLL_ATTEMPTS

\* C25: an upload attempt that ends with the file FAILED, or still PROCESSING
\* after 120 polls, raises an error that is classified retryable; before the
\* third attempt the upload and the polling are run again from the start,
\* and the failure of the third attempt is raised as a user-facing error; no
\* more than 3 uploads are made.
C25_StalledRetried ==
    /\ [](req.uploads <= MAX_RETRIES)
    /\ [][Stalled
            => /\ classifyGeminiError(StalledError(req'.fileState, req'.polls)).retryable
               /\ req'.up.fails = Append(req.up.fails, "UNKNOWN")
               /\ IF req.up.attempt < MAX_RETRIES
                  THEN req'.pc = "backoff"
                  ELSE /\ req'.pc = "failed"
                       /\ req'.raised.cls = "GeminiUserError"
                       /\ req'.parts = <<>>]_vars
    /\ [][(req.pc = "backoff" /\ req'.pc = "upload")
            => /\ req'.uploads = req.uploads + 1
               /\ req'.polls = 0
               /\ req'.reports = 0
               /\ req'.fileState = "none"]_vars

\* three uploads, the third still PROCESSING at the 120th poll
C25_Witness ==
    /\ req.pc = "failed"
    /\ req.uploads = MAX_RETRIES
    /\ req.up.fails = <<"UNKNOWN", "UNKNOWN", "UNKNOWN">>
    /\ req.fileState = "PROCESSING"
    /\ req.polls = MAX_POLL_ATTEMPTS
    /\ req.raised.cls = "GeminiUserError"


\* C26: when the upload of an audio file larger than 15 MB has failed for good
\* and the file is at most 20 MB, the request carries the audio as an inline
\* part and goes on; the failure of the upload ends runAnalysis only for a
\* file above 20 MB.
C26_InlineFallback ==
    (Staged(req.size) /\ req.up.pc = "threw")
    => IF req.size <= INLINE_FALLBACK_BYTES
       THEN req.pc = "built" /\ req.parts = <<"inlineData">>
       ELSE req.pc = "failed"


\* what C28 says of a sampled list apart from the indices: the list itself
\* when it is not longer than count, otherwise count elements in their
\* original order without duplicates, the first element first; and the same
\* list from the client copy
SampleShape ==
    /\ Len(req.arr) <= req.count => req.result = req.arr
    /\ Len(req.arr) > req.count
         => /\ Len(req.result) = req.count
            /\ \A i \in 1..req.count : req.result[i] \in 1..Len(req.arr)
            /\ \A i \in 2..req.count : req.result[i - 1] < req.result[i]
            /\ req.count > 0 => req.result[1] = req.arr[1]
    /\ req.clientResult = req.result

\* C28 as stated: SampleShape, and the elements taken from a list longer than
\* count are those at the indices floor(i * length / count), i = 0..count-1.
C28_ExactIndices ==
    req.pc = "sampled"
    => /\ SampleShape
       /\ Len(req.arr) > req.count
            => \A i \in 1..req.count :
                  req.result[i] = req.arr[(((i - 1) * Len(req.arr)) \div req.count) + 1]

\* C28: SampleShape, and the element number i (from 0) taken from a list
\* longer than count is the one at index floor(i * length / count) or, only
\* when i * length / count is a whole number, possibly the one before it.
C28_FloatIndices ==
    req.pc = "sampled"
    => /\ SampleShape
       /\ Len(req.arr) > req.count
            => \A i \in 1..req.count :
                  LET exact == ((i - 1) * Len(req.arr)) \div req.count
                  IN  \/ req.result[i] = req.arr[exact + 1]
                      \/ /\ ((i - 1) * Len(req.arr)) % req.count = 0
                         /\ exact > 0
                         /\ req.result[i] = req.arr[exact]

\* 22 of 30 elements: element 11 is the one at index 14, not 15
C28_Witness ==
    /\ req.pc = "sampled"
    /\ Len(req.arr) = 30
    /\ req.count = 22
    /\ req.result[12] = req.arr[15]
    /\ req.result[11] = req.arr[14]
    /\ req.clientResult = req.result


(***************************************************************************)
(* Properties of the assembled request (checked under SpecAssemble).       *)
(***************************************************************************)
\* the positions of the image parts of a request
ImagePositions(parts) == {i \in DOMAIN parts : parts[i].of = "image"}

\* C27: in every request sent to the model, under each strategy and at each
\* retry, the audio part, if there is one (an inline part or a file
\* reference, as section 1 left it), is the first part and the only audio
\* part, the image parts follow in the order of the stored list, and the only
\* text part is the last part.
C27_PartsOrder ==
    \A k \in DOMAIN req.sent :
        LET parts == req.sent[k]
            first == IF req.audio = "none" THEN 1 ELSE 2
        IN  /\ Len(parts) >= first
            /\ req.audio # "none" => parts[1].of = "audio" /\ parts[1].kind = req.audio
            /\ parts[Len(parts)].kind = "text"
            /\ ImagePositions(parts) = first..(Len(parts) - 1)
            /\ \A i, j \in ImagePositions(parts) : i < j => parts[i].id < parts[j].id

\* all three strategies sent, Full and Reduced three times each: an inline
\* audio part, then the images, then the text
C27_Witness ==
    /\ req.pc = "done"
    /\ req.strat = 3
    /\ Len(req.sent) = 7
    /\ req.audio = "inlineData"
    /\ Len(req.sent[1]) = 42
    /\ req.sent[2] = req.sent[1] /\ req.sent[3] = req.sent[1]
    /\ Len(req.sent[4]) = 22
    /\ Len(req.sent[7]) = 2

\* C29: every request holds at most 40 image parts, each of them an image of
\* the stored list that exists, is not oversized and can be read; the images
\* left out do not stop the request from being sent; and the prompt announces
\* as many images as there are image parts (none when there is no image part).
C29_ImageCap ==
    /\ req.pc \notin {"strategy", "idle"} => Len(req.sent) >= req.strat
    /\ \A k \in DOMAIN req.sent :
          LET parts == req.sent[k]
          IN  /\ Cardinality(ImagePositions(parts)) <= MAX_SCREENSHOTS
              /\ \A i \in ImagePositions(parts) :
                    req.imagePaths[parts[i].id].kind = "ok"
              /\ parts[Len(parts)].imageCount = Cardinality(ImagePositions(parts))

\* 100 stored images, every third unreadable: 40 are sampled, 27 are sent
C29_Witness ==
    /\ req.pc = "done"
    /\ Len(req.imagePaths) = 100
    /\ \E i \in DOMAIN req.imagePaths : req.imagePaths[i].kind = "unreadable"
    /\ Len(req.sent) = 1
    /\ Cardinality(ImagePositions(req.sent[1])) \in 1..39
    /\ req.sent[1][Len(req.sent[1])].imageCount = Cardinality(ImagePositions(req.sent[1]))


\* C30: the text trimMetadata returns for a text longer than the limit it is
\* given (100,000 characters in runAnalysis) is not longer than that limit.
C30_TrimmedWithinLimit ==
    (req.pc = "trimmed" /\ req.metaLen > req.maxLen) => req.trimmedLen <= req.maxLen


(***************************************************************************)
(* The status of the meeting along one job (checked under Spec).           *)
(***************************************************************************)
\* the positions of the handler inside analyzeRecording
Analyzing == pc \in {"strategy", "prepare", "model", "stratCatch"}

\* C31: while analyzeRecording runs, and so at every remote call, the status
\* is 'processing'; a step that sets 'completed' leaves the result row holding
\* the result of this job; a step that sets 'error' is taken in the catch
\* block, with no strategy running and no retry pending, and no model call
\* is made after it.
C31_StatusOrder ==
    /\ [](Analyzing => status = "processing")
    /\ [](hist.modelCalls > 0 /\ pc \in {"model", "persist"} => status = "processing")
    /\ [][(status' = "completed" /\ status # "completed")
            => /\ pc = "persist"
               /\ returned # "none"
               /\ resultRow' = returned]_vars
    /\ [][(status' = "error" /\ status # "error")
            => /\ pc = "catch"
               /\ \A i \in DOMAIN runs : runs[i].outcome # "running"
               /\ rt.pc \notin {"call", "await", "sleep"}]_vars
    /\ [][(pc \in {"catch", "sendError", "finally", "done"})
            => hist'.modelCalls = hist.modelCalls]_vars

\* a job that called the model five times and saved its result
C31_Witness ==
    /\ pc = "done"
    /\ hist.modelCalls = 5
    /\ status = "completed"
    /\ resultRow = returned
    /\ Len(runs) = 2


\* C32: every job reaches the end of its finally block, and from then on the
\* keepalive timer is cancelled, res.end() has been called unless the stream
\* was ended already, no keepalive write can reach the transport, and the
\* handler sends nothing more.
C32_CleanupAlwaysRuns ==
    /\ <>(pc = "done")
    /\ [](pc = "done"
            => /\ ~keepaliveOn
               /\ writableEnded \/ "end" \in hist.faults
               /\ ~(keepaliveOn /\ ~writableEnded /\ ~clientGone))
    /\ [][(pc = "done") => UNCHANGED <<pc, hist, keepaliveOn, writableEnded>>]_vars

\* a failed job after its cleanup: the error saved, the timer cancelled, the
\* stream ended
C32_Witness ==
    /\ pc = "done"
    /\ status = "error"
    /\ caught.type = "QUOTA_EXHAUSTED"
    /\ ~keepaliveOn
    /\ writableEnded


RecoverMessage ==
    [ timedOut |->
        <<"A", "n", "a", "l", "y", "s", "i", "s", " ", "t", "i", "m", "e", "d", " ", "o",
          "u", "t", " ", "a", "f", "t", "e", "r", " ", "2", "5", " ", "m", "i", "n", "u",
          "t", "e", "s", ".", " ", "T", "h", "e", " ", "r", "e", "c", "o", "r", "d", "i",
          "n", "g", " ", "m", "a", "y", " ", "b", "e", " ", "t", "o", "o", " ", "l", "a",
          "r", "g", "e", " ", "o", "r", " ", "G", "e", "m", "i", "n", "i", " ", "i", "s",
          " ", "t", "e", "m", "p", "o", "r", "a", "r", "i", "l", "y", " ", "u", "n", "a",
          "v", "a", "i", "l", "a", "b", "l", "e", ".", " ", "P", "l", "e", "a", "s", "e",
          " ", "t", "r", "y", " ", "a", "g", "a", "i", "n", ".">>,
      stillRunning |->
        <<"T", "h", "e", " ", "c", "o", "n", "n", "e", "c", "t", "i", "o", "n", " ", "t",
          "o", " ", "t", "h", "e", " ", "a", "n", "a", "l", "y", "s", "i", "s", " ", "s",
          "t", "r", "e", "a", "m", " ", "w", "a", "s", " ", "i", "n", "t", "e", "r", "r",
          "u", "p", "t", "e", "d", ".", " ", "T", "h", "e", " ", "a", "n", "a", "l", "y",
          "s", "i", "s", " ", "i", "s", " ", "s", "t", "i", "l", "l", " ", "r", "u", "n",
          "n", "i", "n", "g", " ", "o", "n", " ", "t", "h", "e", " ", "s", "e", "r", "v",
          "e", "r", " ", "?", " ", "p", "l", "e", "a", "s", "e", " ", "c", "h", "e", "c",
          "k", " ", "M", "e", "e", "t", "i", "n", "g", " ", "H", "i", "s", "t", "o", "r",
          "y", " ", "i", "n", " ", "a", " ", "m", "o", "m", "e", "n", "t", " ", "t", "o",
          " ", "s", "e", "e", " ", "t", "h", "e", " ", "c", "o", "m", "p", "l", "e", "t",
          "e", "d", " ", "r", "e", "s", "u", "l", "t", ".">> ]

\* const errMsg = error.name === 'AbortError' ? '...' : (error.message || '...')
errMsg(error) ==
    IF error.name = "AbortError" THEN RecoverMessage.timedOut
    ELSE IF error.message = <<>> THEN AppMessage.fallback
    ELSE error.message

\* what the catch block does with the meeting it read ("unreadable" when
\* getMeeting threw): the success state with the saved result and return, the
\* still-running message and return, or updateMeetingStatus(meetingId, 'error',
\* errMsg) followed by the error state. The update always goes out
recoverStream_Blind(read, message) ==
    [ui |-> "error", result |-> "none", uiError |-> message, put |-> TRUE]

recoverStream(read, message) ==
    IF read.status = "completed" /\ read.result \notin {"none", ""}
    THEN [ui |-> "success", result |-> read.result, uiError |-> <<>>, put |-> FALSE]
    ELSE IF read.status = "processing"
    THEN [ui |-> "error", result |-> "none", uiError |-> RecoverMessage.stillRunning,
          put |-> FALSE]
    ELSE [ui |-> "error", result |-> "none", uiError |-> message, put |-> TRUE]

Unreadable == [status |-> "unreadable", result |-> "none"]

\* the errors analyzeWithServer rejects with
StreamFailures ==
    { [name |-> "AbortError", message |-> ClientMessage.aborted],
      [name |-> "TypeError", message |-> ClientMessage.network],
      [name |-> "Error", message |-> ClientMessage.unexpectedEnd],
      [name |-> "Error", message |-> <<>>] }

\* the analyze request on the server when the stream fails: not yet taken up,
\* running, or over with what it persisted
ServerStates ==
    { [run |-> "queued", status |-> "pending", errorMessage |-> <<>>, resultRow |-> "none"],
      [run |-> "running", status |-> "processing", errorMessage |-> <<>>,
       resultRow |-> "none"],
      [run |-> "over", status |-> "pending", errorMessage |-> <<>>, resultRow |-> "none"],
      [run |-> "over", status |-> "processing", errorMessage |-> <<>>, resultRow |-> "none"],
      [run |-> "over", status |-> "completed", errorMessage |-> <<>>, resultRow |-> "docA"],
      [run |-> "over", status |-> "error", errorMessage |-> UserMessage.SERVER_ERROR,
       resultRow |-> "none"] }

RecoverStart(failure, run) ==
    [pc |-> "catch", failure |-> failure, run |-> run, read |-> Unreadable, ui |-> "processing",
     result |-> "none", uiError |-> <<>>, put |-> "none", overwrote |-> "none"]

InitRecover ==
    /\ ClsIdle
    /\ req = ReqIdle
    /\ ChanIdle
    /\ rt = RetryIdle
    /\ pc = "idle"
    /\ keepaliveOn = FALSE
    /\ runs = <<>>
    /\ lastErr = NoError
    /\ returned = "none"
    /\ caught = NoError
    /\ hist = NoHistory
    /\ \E failure \in StreamFailures, s \in ServerStates :
         /\ status = s.status
         /\ errorMessage = s.errorMessage
         /\ resultRow = s.resultRow
         /\ cli = RecoverStart(failure, s.run)

RecoverFrame == UNCHANGED <<clsVars, chanVars, rt, req, pc, keepaliveOn, runs, lastErr,
                            returned, caught, hist>>

\* the handler takes the request up: UPDATE ... status = 'processing'
ServerBegins ==
    /\ cli.run = "queued"
    /\ \/ /\ status' = "processing"
          /\ cli' = [cli EXCEPT !.run = "running"]
       \/ /\ status' = status
          /\ cli' = [cli EXCEPT !.run = "over"]
    /\ UNCHANGED <<errorMessage, resultRow>>
    /\ RecoverFrame

\* the run persists its result and the 'completed' status
ServerCompletes ==
    /\ cli.run = "running"
    /\ \E markdown \in ModelTexts \ {""}, dbOutcome \in PersistOutcomes :
         LET saved == persistResult(dbOutcome, markdown, status, resultRow)
         IN  /\ ~saved.threw
             /\ status' = saved.status
             /\ resultRow' = saved.resultRow
    /\ cli' = [cli EXCEPT !.run = "over"]
    /\ UNCHANGED errorMessage
    /\ RecoverFrame

\* the run fails and its catch block persists the 'error' status
ServerFails ==
    /\ cli.run = "running"
    /\ \E err \in {FinalError(e) : e \in ModelErrors}, dbThrows \in BOOLEAN :
         LET saved == persistError(dbThrows, err, status, errorMessage)
         IN  /\ status' = saved.status
             /\ errorMessage' = saved.errorMessage
    /\ cli' = [cli EXCEPT !.run = "over"]
    /\ UNCHANGED resultRow
    /\ RecoverFrame

\* const meeting = await getMeeting(meetingId) resolves with the row and its result
GetMeetingResolves ==
    /\ cli.pc = "catch"
    /\ cli' = [cli EXCEPT !.pc = "read", !.read = [status |-> status, result |-> resultRow]]
    /\ UNCHANGED <<status, errorMessage, resultRow>>
    /\ RecoverFrame

\* await getMeeting(meetingId) rejects: catch (_)
GetMeetingRejects ==
    /\ cli.pc = "catch"
    /\ cli' = [cli EXCEPT !.pc = "read", !.read = Unreadable]
    /\ UNCHANGED <<status, errorMessage, resultRow>>
    /\ RecoverFrame

\* the rest of the catch block, up to its last setAnalysisState
RecoverStream ==
    /\ cli.pc = "read"
    /\ LET did == recoverStream(cli.read, errMsg(cli.failure))
       IN  cli' = [cli EXCEPT !.pc = "shown", !.ui = did.ui, !.result = did.result,
                              !.uiError = did.uiError,
                              !.put = IF did.put THEN "sent" ELSE "none"]
    /\ UNCHANGED <<status, errorMessage, resultRow>>
    /\ RecoverFrame

\* router.put('/:id/status'): UPDATE meetings SET status = ?, error_message = ?
StatusRoute(body) == [status |-> body.status, errorMessage |-> body.error_message]

\* the update reaches the server
PutArrives ==
    /\ cli.put = "sent"
    /\ LET row == StatusRoute([status |-> "error", error_message |-> errMsg(cli.failure)])
       IN  /\ status' = row.status
           /\ errorMessage' = row.errorMessage
    /\ cli' = [cli EXCEPT !.put = "applied", !.overwrote = status]
    /\ UNCHANGED resultRow
    /\ RecoverFrame

\* the update does not reach the server, or the route answers 500: .catch(() => {})
PutFails ==
    /\ cli.put = "sent"
    /\ cli' = [cli EXCEPT !.put = "failed"]
    /\ UNCHANGED <<status, errorMessage, resultRow>>
    /\ RecoverFrame

NextRecover ==
    \/ ServerBegins
    \/ ServerCompletes
    \/ ServerFails
    \/ GetMeetingResolves
    \/ GetMeetingRejects
    \/ RecoverStream
    \/ PutArrives
    \/ PutFails

SpecRecover == InitRecover /\ [][NextRecover]_vars

MaxDuration == 2

MaxStartCalls == 2

MaxCaptures == 2

MaxLeaked == 2

\* the sequence s without its k-th element
Without(s, k) == [i \in 1..(Len(s) - 1) |-> IF i < k THEN s[i] ELSE s[i + 1]]

RecorderIdle ==
    [state |-> "idle", duration |-> 0, micLevel |-> 0, systemLevel |-> 0, screenshotCount |-> 0,
     screenshots |-> 0, cancelledRef |-> FALSE,
     timerRef |-> FALSE, screenshotIntervalRef |-> FALSE, levelFrameRef |-> FALSE,
     leakedTimers |-> 0, leakedShotTimers |-> 0, leakedFrames |-> 0, shotTimeouts |-> 0,
     videoTrackRef |-> FALSE, analysers |-> FALSE,
     recorders |-> "none", micRecorderRef |-> FALSE, systemRecorderRef |-> FALSE,
     stopEvent |-> "none", staleStop |-> FALSE,
     asking |-> <<>>, grabbing |-> 0, encoding |-> 0,
     startCalls |-> 0, last |-> "none", cancelFrom |-> "none"]

\* clearInterval on the three interval refs, cancelAnimationFrame on the frame
stopAllTimers(r) ==
    [r EXCEPT !.timerRef = FALSE, !.screenshotIntervalRef = FALSE, !.levelFrameRef = FALSE]

\* the tracks are stopped and the stream, track and analyser refs set to null
stopAllStreams(r) == [r EXCEPT !.videoTrackRef = FALSE, !.analysers = FALSE]

\* onstop = null on every referenced recorder, stop() unless inactive, ref = null
stopAllRecorders(r) ==
    IF r.recorders = "none" THEN r
    ELSE [r EXCEPT !.recorders = "none", !.micRecorderRef = FALSE, !.systemRecorderRef = FALSE,
                   !.stopEvent = IF r.recorders = "inactive"
                                 THEN (IF @ = "none" THEN "none" ELSE "bare")
                                 ELSE "bare"]

resetAllData(r) ==
    [r EXCEPT !.screenshots = 0, !.duration = 0, !.micLevel = 0, !.systemLevel = 0,
              !.screenshotCount = 0]

cancelRecording(r) ==
    [resetAllData(stopAllStreams(stopAllRecorders(stopAllTimers(
        [r EXCEPT !.cancelledRef = TRUE])))) EXCEPT !.state = "idle"]

\* window.setInterval stored in timerRef: an interval still referenced there
\* is not cleared and keeps firing
setTimer(r) ==
    [r EXCEPT !.timerRef = TRUE, !.leakedTimers = IF r.timerRef THEN @ + 1 ELSE @]

pauseRecording(r) ==
    [r EXCEPT !.recorders = IF @ = "recording" THEN "paused" ELSE @,
              !.timerRef = FALSE, !.state = "paused"]

resumeRecording(r) ==
    [setTimer([r EXCEPT !.recorders = IF @ = "paused" THEN "recording" ELSE @])
        EXCEPT !.state = "recording"]

\* captureScreenshot up to its first await
captureScreenshot(r) ==
    IF r.cancelledRef \/ ~r.videoTrackRef THEN r
    ELSE [r EXCEPT !.grabbing = @ + 1]

\* finalize of stopRecording
finalize(r) == [stopAllStreams(r) EXCEPT !.state = "stopped"]

stopRecording(r) ==
    LET s == captureScreenshot(stopAllTimers(r))
    IN  IF s.recorders \in {"recording", "paused"}
        THEN [s EXCEPT !.recorders = "inactive", !.stopEvent = "handled"]
        ELSE finalize(s)

\* the synchronous first part of startRecording, up to await getUserMedia
startRecording(r) ==
    [resetAllData([r EXCEPT !.cancelledRef = FALSE, !.state = "requesting"])
        EXCEPT !.asking = Append(@, [stage |-> "mic", mic |-> FALSE])]

\* the recorders a stopRecording is waiting for are all replaced in their refs
\* by the new recorders (the merged one always is, the other two when the new
\* recording has that source): their onstop handlers are out of reach
Orphaned(r, mic, system) ==
    /\ r.stopEvent = "handled"
    /\ r.micRecorderRef => mic
    /\ r.systemRecorderRef => system

\* startRecording from the final cancellation check on, the permission dialogs
\* answered: the catch block when there is no audio source, else steps 3 to 5
beginRecording(r, mic, system, video) ==
    IF ~mic /\ ~system
    THEN [stopAllStreams(stopAllRecorders(stopAllTimers(r))) EXCEPT !.state = "idle"]
    ELSE LET timed == setTimer([r EXCEPT !.duration = 0, !.analysers = TRUE,
                                         !.videoTrackRef = video,
                                         !.staleStop = @ \/ Orphaned(r, mic, system),
                                         !.stopEvent = IF Orphaned(r, mic, system) THEN "none"
                                                       ELSE @,
                                         !.micRecorderRef = @ \/ mic,
                                         !.systemRecorderRef = @ \/ system,
                                         !.recorders = "recording"])
             metered == [timed EXCEPT !.levelFrameRef = TRUE,
                                      !.leakedFrames = IF timed.levelFrameRef THEN @ + 1
                                                       ELSE @]
         IN  [metered EXCEPT
                 !.shotTimeouts = IF video THEN @ + 1 ELSE @,
                 !.screenshotIntervalRef = @ \/ video,
                 !.leakedShotTimers = IF video /\ metered.screenshotIntervalRef THEN @ + 1
                                      ELSE @,
                 !.state = "recording"]

\* the callback of the duration interval
onDurationTick(r) == IF ~r.cancelledRef THEN [r EXCEPT !.duration = @ + 1] ELSE r

RecorderFrame == UNCHANGED <<clsVars, chanVars, rt, jobVars, req>>

Called(r, name) == [r EXCEPT !.last = name]

InitRecorder ==
    /\ ClsIdle
    /\ req = ReqIdle
    /\ ChanIdle
    /\ rt = RetryIdle
    /\ JobIdle
    /\ cli = RecorderIdle

\* the Start Recording button, shown in state 'idle'
CallStart ==
    /\ cli.state = "idle"
    /\ cli.startCalls < MaxStartCalls
    /\ cli' = [Called(startRecording(cli), "start") EXCEPT !.startCalls = @ + 1,
                                                           !.cancelFrom = "none"]
    /\ RecorderFrame

CallPause ==
    /\ cli.state = "recording"
    /\ cli' = Called(pauseRecording(cli), "pause")
    /\ RecorderFrame

CallResume ==
    /\ cli.state = "paused"
    /\ cli.leakedTimers < MaxLeaked
    /\ cli' = Called(resumeRecording(cli), "resume")
    /\ RecorderFrame

CallStop ==
    /\ cli.state \in {"recording", "paused"}
    /\ cli.grabbing + cli.encoding + cli.screenshots < MaxCaptures
    /\ cli' = Called(stopRecording(cli), "stop")
    /\ RecorderFrame

\* the Cancel buttons, and Discard & re-record in state 'stopped'
CallCancel ==
    /\ cli.state \in {"requesting", "recording", "paused", "stopped"}
    /\ cli' = [Called(cancelRecording(cli), "cancel") EXCEPT !.cancelFrom = cli.state]
    /\ RecorderFrame

\* await navigator.mediaDevices.getUserMedia settles for one of the calls
MicSettles ==
    \E k \in DOMAIN cli.asking, granted \in BOOLEAN :
      /\ cli.asking[k].stage = "mic"
      /\ cli' = Called(IF cli.cancelledRef
                       THEN [cli EXCEPT !.asking = Without(@, k)]
                       ELSE [cli EXCEPT !.asking[k] = [stage |-> "display", mic |-> granted]],
                       "callback")
      /\ RecorderFrame

\* await navigator.mediaDevices.getDisplayMedia settles for one of the calls
DisplaySettles ==
    \E k \in DOMAIN cli.asking, system \in BOOLEAN, video \in BOOLEAN :
      /\ cli.asking[k].stage = "display"
      /\ cli.leakedTimers < MaxLeaked
      /\ LET rest == [cli EXCEPT !.asking = Without(@, k)]
         IN  cli' = Called(IF cli.cancelledRef THEN rest
                           ELSE beginRecording(rest, cli.asking[k].mic, system, video),
                           "callback")
      /\ RecorderFrame

\* the duration interval fires, referenced by timerRef or not
DurationTick ==
    /\ cli.timerRef \/ cli.leakedTimers > 0
    /\ cli.duration < MaxDuration
    /\ cli' = Called(onDurationTick(cli), "timer")
    /\ RecorderFrame

\* the animation frame of the level meter: tick
LevelTick ==
    /\ cli.levelFrameRef \/ cli.leakedFrames > 0
    /\ \E mic \in {0, 1}, system \in {0, 1} :
         cli' = Called(IF cli.cancelledRef
                       THEN (IF cli.levelFrameRef THEN [cli EXCEPT !.levelFrameRef = FALSE]
                             ELSE [cli EXCEPT !.leakedFrames = @ - 1])
                       ELSE IF cli.analysers
                       THEN [cli EXCEPT !.micLevel = mic, !.systemLevel = system]
                       ELSE cli,
                       "timer")
    /\ RecorderFrame

\* the screenshot interval or the two-second timeout fires
ScreenshotTick ==
    /\ \/ /\ cli.screenshotIntervalRef \/ cli.leakedShotTimers > 0
          /\ cli' = Called(captureScreenshot(cli), "timer")
       \/ /\ cli.shotTimeouts > 0
          /\ cli' = Called(captureScreenshot([cli EXCEPT !.shotTimeouts = @ - 1]), "timer")
    /\ cli.grabbing + cli.encoding + cli.screenshots < MaxCaptures
    /\ RecorderFrame

\* await capture.grabFrame() or await video.play() resolves
FrameGrabbed ==
    /\ cli.grabbing > 0
    /\ cli' = Called(IF cli.cancelledRef THEN [cli EXCEPT !.grabbing = @ - 1]
                     ELSE [cli EXCEPT !.grabbing = @ - 1, !.encoding = @ + 1],
                     "callback")
    /\ RecorderFrame

\* await canvas.toBlob resolves: the screenshot is pushed and counted
BlobEncoded ==
    /\ cli.encoding > 0
    /\ cli' = Called(IF cli.cancelledRef THEN [cli EXCEPT !.encoding = @ - 1]
                     ELSE [cli EXCEPT !.encoding = @ - 1, !.screenshots = @ + 1,
                                      !.screenshotCount = cli.screenshots + 1],
                     "callback")
    /\ RecorderFrame

\* the stop event of the recorders: rec.onstop when it is still set
StopEvent ==
    /\ \/ /\ cli.stopEvent # "none"
          /\ cli' = Called(IF cli.stopEvent = "handled"
                           THEN finalize([cli EXCEPT !.stopEvent = "none"])
                           ELSE [cli EXCEPT !.stopEvent = "none"], "callback")
       \/ /\ cli.staleStop
          /\ cli' = Called(finalize([cli EXCEPT !.staleStop = FALSE]), "callback")
    /\ RecorderFrame

NextRecorder ==
    \/ CallStart
    \/ CallPause
    \/ CallResume
    \/ CallStop
    \/ CallCancel
    \/ MicSettles
    \/ DisplaySettles
    \/ DurationTick
    \/ LevelTick
    \/ ScreenshotTick
    \/ FrameGrabbed
    \/ BlobEncoded
    \/ StopEvent

SpecRecorder == InitRecorder /\ [][NextRecorder]_vars

\* C36: cancelRecording in state 'recording' or 'paused' leaves the state
\* 'idle' and duration, levels and screenshot count 0, and from then until the
\* next call of startRecording no timer and no pending callback changes the
\* state or the duration
C36_CancelIsFinal ==
    /\ [][(cli'.last = "cancel" /\ cli.last # "cancel" /\ cli.state \in {"recording", "paused"})
            => /\ cli'.state = "idle"
               /\ cli'.duration = 0
               /\ cli'.micLevel = 0
               /\ cli'.systemLevel = 0
               /\ cli'.screenshotCount = 0]_vars
    /\ [][(cli.cancelFrom \in {"recording", "paused"} /\ cli'.last \in {"timer", "callback"})
            => /\ cli'.state = cli.state
               /\ cli'.duration = cli.duration]_vars

(***************************************************************************)
(* Two analyze requests for the same meeting: SpecOverlap runs the handler *)
(* twice over one meetings row and one result row. A handler runs without  *)
(* interruption from its start to await analyzeRecording and from there to *)
(* its end; the second request arrives while the first is still analysing. *)
(***************************************************************************)
Handlers == {1, 2}

HandlerIdle == [pc |-> "waiting", wrote |-> "none"]

\* the first statement of the try block: UPDATE ... status = 'processing',
\* error_message = NULL, whatever the row holds
startAnalysis(dbThrows, curStatus, curMessage) ==
    IF dbThrows
    THEN [status |-> curStatus, errorMessage |-> curMessage, threw |-> TRUE]
    ELSE [status |-> "processing", errorMessage |-> <<>>, threw |-> FALSE]

InitOverlap ==
    /\ ClsIdle
    /\ cli = ClientIdle
    /\ ChanIdle
    /\ rt = RetryIdle
    /\ pc = "idle"
    /\ keepaliveOn = FALSE
    /\ runs = <<>>
    /\ lastErr = NoError
    /\ returned = "none"
    /\ caught = NoError
    /\ hist = NoHistory
    /\ \E row \in StoredMeetings :
         /\ status = row.status
         /\ errorMessage = row.errorMessage
         /\ resultRow = row.resultRow
    /\ req = [handlers |-> [h \in Handlers |-> HandlerIdle], finished |-> <<>>]

OverlapFrame == UNCHANGED <<clsVars, chanVars, rt, cli, pc, keepaliveOn, runs, lastErr,
                            returned, caught, hist>>

\* the catch block and the finally block of handler h
HandlerFails(h, err, dbThrows) ==
    LET saved == persistError(dbThrows, err, status, errorMessage)
    IN  /\ status' = saved.status
        /\ errorMessage' = saved.errorMessage
        /\ req' = [req EXCEPT !.handlers[h] = [pc |-> "over",
                                                wrote |-> IF saved.failed THEN "nothing"
                                                          ELSE "error"],
                              !.finished = Append(@, h)]

\* the request arrives while no other handler is over: validation, the SSE
\* stream opened, the status set, up to await analyzeRecording
HandlerStarts(h) ==
    /\ req.handlers[h].pc = "waiting"
    /\ req.finished = <<>>
    /\ \E dbThrows \in BOOLEAN :
         LET began == startAnalysis(dbThrows, status, errorMessage)
         IN  IF began.threw
             THEN /\ \E errorThrows \in BOOLEAN : HandlerFails(h, DbError, errorThrows)
                  /\ UNCHANGED resultRow
             ELSE /\ status' = began.status
                  /\ errorMessage' = began.errorMessage
                  /\ req' = [req EXCEPT !.handlers[h].pc = "analyzing"]
                  /\ UNCHANGED resultRow
    /\ OverlapFrame

\* await analyzeRecording resolves: the result is persisted and the handler
\* ends, through its catch block when a database statement throws
AnalysisResolves(h) ==
    /\ req.handlers[h].pc = "analyzing"
    /\ \E markdown \in ModelTexts \ {""}, dbOutcome \in PersistOutcomes :
         LET saved == persistResult(dbOutcome, markdown, status, resultRow)
         IN  /\ resultRow' = saved.resultRow
             /\ IF saved.threw
                THEN \E errorThrows \in BOOLEAN :
                       LET failed == persistError(errorThrows, DbError, saved.status,
                                                  errorMessage)
                       IN  /\ status' = failed.status
                           /\ errorMessage' = failed.errorMessage
                           /\ req' = [req EXCEPT !.handlers[h] =
                                          [pc |-> "over",
                                           wrote |-> IF failed.failed THEN "nothing"
                                                     ELSE "error"],
                                                 !.finished = Append(@, h)]
                ELSE /\ status' = saved.status
                     /\ UNCHANGED errorMessage
                     /\ req' = [req EXCEPT !.handlers[h] = [pc |-> "over",
                                                             wrote |-> "completed"],
                                           !.finished = Append(@, h)]
    /\ OverlapFrame

\* await analyzeRecording rejects
AnalysisRejects(h) ==
    /\ req.handlers[h].pc = "analyzing"
    /\ \E e \in ModelErrors, dbThrows \in BOOLEAN : HandlerFails(h, FinalError(e), dbThrows)
    /\ UNCHANGED resultRow
    /\ OverlapFrame

NextOverlap ==
    \/ \E h \in Handlers : HandlerStarts(h)
    \/ \E h \in Handlers : AnalysisResolves(h)
    \/ \E h \in Handlers : AnalysisRejects(h)

SpecOverlap == InitOverlap /\ [][NextOverlap]_vars

BothOver == \A h \in Handlers : req.handlers[h].pc = "over"

\* the handler that finished last
LastHandler == req.handlers[req.finished[Len(req.finished)]]

\* C37: with two overlapping analyze requests a persisted 'completed' is never
\* overwritten with 'processing' or 'error' by the other run, and the status
\* after both is 'completed' whenever one of them succeeded
C37_CompletedSurvivesOtherRun ==
    /\ [][(status = "completed" /\ \E h \in Handlers : req.handlers[h].wrote = "completed")
            => status' = "completed"]_vars
    /\ [](BothOver /\ (\E h \in Handlers : req.handlers[h].wrote = "completed")
            => status = "completed")

\* C37, amended: the other run never overwrites that 'completed' with
\* 'processing', but overwrites it with 'error' when it fails later; the
\* status after both is the one written by the run that finished last
C37_LastRunDecides ==
    /\ [][(status = "completed" /\ \E h \in Handlers : req.handlers[h].wrote = "completed")
            => status' \in {"completed", "error"}]_vars
    /\ [](BothOver /\ LastHandler.wrote \in {"completed", "error"}
            => status = LastHandler.wrote)

C37_Witness ==
    /\ BothOver
    /\ req.finished = <<2, 1>>
    /\ req.handlers[2].wrote = "completed"
    /\ req.handlers[1].wrote = "error"
    /\ status = "error"
    /\ errorMessage = UserMessage.QUOTA_EXHAUSTED
    /\ resultRow = "docB"

(***************************************************************************)
(* The whole of analyzeRecording with a stored audio file: SpecStaged runs *)
(* the strategy loop, and in each strategy runAnalysis from its audio      *)
(* section (the upload through the File API with its retries and its poll  *)
(* loop, as in SpecAudio, with the failures of a poll bounded as its       *)
(* answers are) to generateContent (through withSmartRetry).               *)
(* uploads counts the calls of ai.files.upload, staged the file references *)
(* uploadAudioFile returned, sent holds a part list per generateContent.   *)
(***************************************************************************)
StagedSizes == {Null, INLINE_LIMIT_BYTES, INLINE_LIMIT_BYTES + 1, INLINE_FALLBACK_BYTES + 1}

\* what generateContent is made to raise in SpecStaged
StagedErrors ==
    { RawError(429, Null, ProviderMessage.quota),
      RawError(500, Null, ProviderMessage.internal),
      RawError(Null, Null, ProviderMessage.overflow) }

InitStaged ==
    /\ ClsIdle
    /\ ChanIdle
    /\ rt = RetryIdle
    /\ JobIdle
    /\ cli = ClientIdle
    /\ \E size \in StagedSizes : req = [ReqIdle EXCEPT !.pc = "loop", !.size = size]

\* for (const strategy of strategies): runAnalysis is called with the
\* strategy's images, and starts from an empty part list
NextStrategy ==
    /\ req.pc = "loop"
    /\ req' = [req EXCEPT !.pc = "audio", !.strat = @ + 1, !.parts = <<>>]
    /\ UNCHANGED <<clsVars, chanVars, rt, jobVars, cli>>

\* sections 2 to 4 of runAnalysis, up to the first await generateContent
GenerateContent ==
    /\ req.pc = "built"
    /\ req' = [req EXCEPT !.pc = "generate",
                          !.up = RetryInvoke(withSmartRetry(MAX_RETRIES, RETRY_BASE_MS,
                                                            "generateContent")),
                          !.sent = Append(@, req.parts)]
    /\ UNCHANGED <<clsVars, chanVars, rt, jobVars, cli>>

\* the catch block of the strategy loop and the final throw
StrategyCaught(q, err) ==
    LET c == StrategyCatch(err, q.strat)
    IN  IF c.do = "next" THEN [q EXCEPT !.pc = "loop"]
        ELSE [q EXCEPT !.pc = "rejected", !.raised = c.error]

\* generateContent resolves with a text, or with none
GenerateResolves ==
    /\ req.pc = "generate"
    /\ \/ req' = [req EXCEPT !.pc = "returned", !.up = RetryReturn(@, "docA")]
       \/ req' = StrategyCaught([req EXCEPT !.up = RetryReturn(@, "")], EmptyResponseError)
    /\ UNCHANGED <<clsVars, chanVars, rt, jobVars, cli>>

\* generateContent rejects: withSmartRetry's catch block and, when it throws,
\* the catch block of the strategy loop
GenerateRejects ==
    /\ req.pc = "generate"
    /\ \E err \in StagedErrors :
       \E r1 \in {RetryCatch(req.up, err)} :
          req' = IF r1.pc = "sleep" THEN [req EXCEPT !.pc = "wait", !.up = r1]
                 ELSE StrategyCaught([req EXCEPT !.up = r1], r1.thrown)
    /\ UNCHANGED <<clsVars, chanVars, rt, jobVars, cli>>

\* the retry sleep is over: generateContent is called again
GenerateAgain ==
    /\ req.pc = "wait"
    /\ req' = [req EXCEPT !.pc = "generate", !.up = RetryInvoke(RetryWake(@)),
                          !.sent = Append(@, req.parts)]
    /\ UNCHANGED <<clsVars, chanVars, rt, jobVars, cli>>

\* runAnalysis threw in its audio section: the catch block of the strategy loop
AudioThrown ==
    /\ req.pc = "failed"
    /\ req' = StrategyCaught(req, req.raised)
    /\ UNCHANGED <<clsVars, chanVars, rt, jobVars, cli>>

\* await ai.files.upload rejects, or await ai.files.get does within the
\* first MaxAnswerPolls polls or at the last one
StagingRejects ==
    /\ req.pc = "poll" => req.polls < MaxAnswerPolls \/ req.polls = MAX_POLL_ATTEMPTS - 1
    /\ UploadRejects

NextStaged ==
    \/ NextStrategy
    \/ PrepareAudio
    \/ UploadResolves
    \/ StagingRejects
    \/ PollResolves
    \/ BackoffOver
    \/ AudioThrown
    \/ GenerateContent
    \/ GenerateResolves
    \/ GenerateRejects
    \/ GenerateAgain

SpecStaged == InitStaged /\ [][NextStaged]_vars

\* C38: within one job the audio file is staged successfully at most once;
\* a later strategy reuses the reference of the ACTIVE file
C38_StagedAtMostOnce == req.staged <= 1

\* C38, amended: every strategy stages the audio file anew, so a job stages
\* it successfully at most once per strategy that is run
C38_StagedOncePerStrategy ==
    /\ req.staged <= req.strat
    /\ req.strat <= Len(strategies)
    /\ \A i \in DOMAIN req.sent :
         req.sent[i] = <<"fileData">> => req.size > INLINE_LIMIT_BYTES /\ req.staged >= 1

C38_Witness ==
    /\ req.pc = "returned"
    /\ req.strat = 3
    /\ req.staged = 3
    /\ req.uploads = 3
    /\ Len(req.sent) = 7

AnalysisOver == req.pc \in {"returned", "rejected"}

\* the steps one upload attempt can take: the upload, its polls, the backoff
AttemptSteps == MAX_POLL_ATTEMPTS + 3

\* the steps generateContent and the strategy's catch block can take
GenerateSteps == 2 * MAX_RETRIES + 3

\* the steps one strategy can take
StrategySteps == GenerateSteps + MAX_RETRIES * AttemptSteps + 2

\* a bound on the steps analyzeRecording can still take from state q
StepsLeft(q) ==
    IF q.pc \in {"returned", "rejected"} THEN 0
    ELSE (Len(strategies) - q.strat) * StrategySteps
         + CASE q.pc = "loop" -> 0
             [] q.pc = "audio" -> StrategySteps - 1
             [] q.pc = "upload" ->
                  GenerateSteps + (MAX_RETRIES - q.up.attempt) * AttemptSteps + AttemptSteps - 1
             [] q.pc = "poll" ->
                  GenerateSteps + (MAX_RETRIES - q.up.attempt) * AttemptSteps
                      + AttemptSteps - 2 - q.polls
             [] q.pc = "backoff" ->
                  GenerateSteps + (MAX_RETRIES - q.up.attempt) * AttemptSteps
             [] q.pc = "built" -> GenerateSteps - 1
             [] q.pc = "generate" -> 2 * (MAX_RETRIES - q.up.attempt) + 2
             [] q.pc = "wait" -> 2 * (MAX_RETRIES - q.up.attempt) + 1
             [] q.pc = "failed" -> 1

ErrorKinds ==
    {"QUOTA_EXHAUSTED", "RATE_LIMITED", "KEY_LEAKED", "AUTH_ERROR", "BILLING_REQUIRED",
     "INVALID_REQUEST", "FILE_EXPIRED", "SERVER_ERROR", "SERVICE_UNAVAILABLE",
     "DEADLINE_EXCEEDED", "CONTEXT_OVERFLOW", "UNKNOWN"}

\* one provider error for each row that sets retryable: false
StopErrors ==
    { RawError(429, Null, ProviderMessage.quota),
      RawError(403, Null, ProviderMessage.leaked),
      RawError(403, Null, ProviderMessage.denied),
      RawError(400, Null, ProviderMessage.billing),
      RawError(400, Null, ProviderMessage.invalid),
      RawError(404, Null, ProviderMessage.notFound),
      RawError(504, Null, ProviderMessage.deadline) }

InitKinds == InitClassify \/ InitStaged

\* classifyGeminiError applied to a generated raw error
ClassifyKind ==
    /\ req = ReqIdle
    /\ Classify

\* generateContent rejects with an error of a retryable: false row
GenerateStopped ==
    /\ req.pc = "generate"
    /\ \E err \in StopErrors :
       \E r1 \in {RetryCatch(req.up, err)} :
          req' = IF r1.pc = "sleep" THEN [req EXCEPT !.pc = "wait", !.up = r1]
                 ELSE StrategyCaught([req EXCEPT !.up = r1], r1.thrown)
    /\ UNCHANGED <<clsVars, chanVars, rt, jobVars, cli>>

NextKinds ==
    \/ ClassifyKind
    \/ NextStaged
    \/ GenerateStopped

SpecKinds == InitKinds /\ [][NextKinds]_vars

\* a remote call of the current withSmartRetry failed with a stop-immediately kind
StopKindSeen(q) == \E i \in DOMAIN q.up.fails : q.up.fails[i] \in nonRetryableTypes

\* C40: the classifier marks a kind retryable = false exactly when the kind is
\* in the fallback loop's stop-immediately list; once a remote call has failed
\* with such a kind the job makes no further remote call, and that error is
\* the one on its way to the caller; and every error analyzeRecording raises after the API-key check is
\* a GeminiUserError whose type is one of the twelve kinds
C40_StopKindsAgree ==
    /\ [](clsOut # NoClassification
            => /\ clsOut.type \in ErrorKinds
               /\ (~clsOut.retryable) <=> (clsOut.type \in nonRetryableTypes))
    /\ [](StopKindSeen(req)
            => /\ req.pc \in {"failed", "rejected"}
               /\ req.raised.cls = "GeminiUserError"
               /\ req.raised.type = req.up.fails[Len(req.up.fails)])
    /\ [][StopKindSeen(req)
            => /\ req'.sent = req.sent
               /\ req'.uploads = req.uploads
               /\ req'.polls = req.polls]_vars
    /\ [](req.pc = "rejected"
            => /\ req.raised.cls = "GeminiUserError"
               /\ req.raised.type \in ErrorKinds)

C40_Witness ==
    /\ req.pc = "rejected"
    /\ req.raised.type = "DEADLINE_EXCEEDED"
    /\ req.up.fails = <<"SERVER_ERROR", "DEADLINE_EXCEEDED">>
    /\ req.strat = 2
    /\ req.staged = 2
    /\ Len(req.sent) = 5

=============================================================================
